---- MODULE Spec2Model ----
(***************************************************************************)
(* FlowMender: the document-analysis pipeline.                             *)
(*                                                                         *)
(*   EdgeCaseFinder.analyzeDocument  (services/EdgeCaseFinder.ts)          *)
(*   GeminiService                   (services/GeminiService.ts)           *)
(*   App.handleAnalyzeConfirm        (App.tsx)                             *)
(*                                                                         *)
(* A run of analyzeDocument is a chain of continuations separated by the   *)
(* awaits of the code: four timers (delay) and three LLM calls.  Each      *)
(* continuation is one action; what the event loop runs without yielding   *)
(* (a synchronous prefix of a callee, a throw and the catch that handles   *)
(* it) belongs to the same action.                                         *)
(***************************************************************************)
EXTENDS Integers, Sequences, FiniteSets, TLC

(***************************************************************************)
(* Bounds of the model.                                                    *)
(***************************************************************************)

\* longest JSON array an LLM reply carries
MaxItems == 2

\* longest provider error message, in words
MaxWords == 3

\* most PRD keywords a generated document lists
MaxTerms == 22

\* the most credits one call deducts or adds
MaxAmount == 3

\* the most credits a user purchases in all
MaxPurchased == 4

(***************************************************************************)
(* JavaScript values.                                                      *)
(***************************************************************************)

\* the value of a property that is absent
Undef == "<undefined>"

\* a string is falsy when it is undefined or empty
Truthy(s) == s # Undef /\ s # ""

\* a || b
OrElse(a, b) == IF Truthy(a) THEN a ELSE b

\* a JSON value that is an array, and one that is not
Arr(items) == [isArray |-> TRUE, items |-> items]
NotArr == [isArray |-> FALSE, items |-> <<>>]

\* Reading a property of null or undefined throws a TypeError; any other
\* value (number, string, array, object) yields the property or undefined.
IsNullish(x) == x.kind = "null"

\* The errors that reach EdgeCaseFinder's catch: Error objects, of which the
\* catch reads only the message.
TypeError == "Cannot read properties of null"
NoApiKeyError == "Gemini API key not found. Please check your environment variables."

(***************************************************************************)
(* GeminiService.handleApiError                                            *)
(* An error is a record: whether it has a message, and the message as a    *)
(* sequence of words.  String.includes is a search for a contiguous run.   *)
(***************************************************************************)
Includes(message, needle) ==
    \E i \in 1..(Len(message) - Len(needle) + 1) :
        SubSeq(message, i, i + Len(needle) - 1) = needle

ErrorWith(message) == [hasMessage |-> TRUE, message |-> message]
ErrorWithoutMessage == [hasMessage |-> FALSE, message |-> <<>>]

\* handleApiError with the "quota" test ahead of the "API key" test
handleApiError_quotaFirst(error) ==
    IF error.hasMessage /\ Includes(error.message, <<"429">>) THEN "quota_exceeded"
    ELSE IF error.hasMessage /\ Includes(error.message, <<"quota">>) THEN "quota_exceeded"
    ELSE IF error.hasMessage /\ Includes(error.message, <<"API", "key">>) THEN "invalid_api_key"
    ELSE "api_unavailable"

\* what handleApiError throws: the message of the new Error
handleApiError(error) ==
    IF error.hasMessage /\ Includes(error.message, <<"429">>) THEN "quota_exceeded"
    ELSE IF error.hasMessage /\ Includes(error.message, <<"API", "key">>) THEN "invalid_api_key"
    ELSE IF error.hasMessage /\ Includes(error.message, <<"quota">>) THEN "quota_exceeded"
    ELSE "api_unavailable"

(***************************************************************************)
(* The text of an LLM reply that should carry a JSON array: a sequence of  *)
(* tokens.  "[" and "]" are the brackets, "prose" is any text that is not  *)
(* JSON, and a "value" token is one complete JSON value that is not an     *)
(* array (null, a number, a string, an object), its separators included.   *)
(***************************************************************************)
NoValue == [kind |-> "none"]
LB == [t |-> "[", v |-> NoValue]
RB == [t |-> "]", v |-> NoValue]
Prose == [t |-> "prose", v |-> NoValue]
Val(v) == [t |-> "value", v |-> v]

\* a JSON value that is itself an array, as an item of the parsed array
NestedArray == [kind |-> "array"]

Positions(text, t) == {i \in 1..Len(text) : text[i].t = t}
Min(S) == CHOOSE x \in S : \A y \in S : x <= y
Max(S) == CHOOSE x \in S : \A y \in S : x >= y

\* text.match(/\[[\s\S]*\]/): the leftmost "[" that has a "]" after it, and,
\* the star being greedy, everything up to the last "]" of the text
HasArrayMatch(text) ==
    \E i \in Positions(text, "["), j \in Positions(text, "]") : i < j

ArrayMatch(text) ==
    SubSeq(text, Min(Positions(text, "[")), Max(Positions(text, "]")))

RECURSIVE DepthAfter(_, _)
DepthAfter(s, i) ==
    IF i = 0 THEN 0
    ELSE DepthAfter(s, i - 1)
         + (IF s[i].t = "[" THEN 1 ELSE IF s[i].t = "]" THEN -1 ELSE 0)

\* JSON.parse accepts the span when it is one well-formed array
JsonParses(s) ==
    /\ Len(s) >= 2
    /\ s[1].t = "["
    /\ \A i \in 1..Len(s) : s[i].t # "prose"
    /\ \A i \in 1..(Len(s) - 1) : DepthAfter(s, i) >= 1
    /\ DepthAfter(s, Len(s)) = 0

\* the items of the parsed array: the values and the nested arrays at depth 1
RECURSIVE ItemsUpTo(_, _)
ItemsUpTo(s, i) ==
    IF i <= 1 THEN <<>>
    ELSE LET before == ItemsUpTo(s, i - 1)
         IN  IF DepthAfter(s, i - 1) # 1 THEN before
             ELSE IF s[i].t = "value" THEN Append(before, s[i].v)
             ELSE IF s[i].t = "[" THEN Append(before, NestedArray)
             ELSE before

JsonParse(s) == ItemsUpTo(s, Len(s) - 1)

(***************************************************************************)
(* parseInt over a text given as a sequence of characters; the alphabet    *)
(* holds no "x", so the hexadecimal prefix never arises.                   *)
(***************************************************************************)
Digits == <<"0", "1", "2", "3", "4", "5", "6", "7", "8", "9">>
IsDigit(c) == \E i \in 1..Len(Digits) : Digits[i] = c
DigitVal(c) == (CHOOSE i \in 1..Len(Digits) : Digits[i] = c) - 1
IsSpace(c) == c = " "

RECURSIVE TrimLeft(_)
TrimLeft(s) ==
    IF s # <<>> /\ IsSpace(Head(s)) THEN TrimLeft(Tail(s)) ELSE s

RECURSIVE TrimRight(_)
TrimRight(s) ==
    IF s # <<>> /\ IsSpace(s[Len(s)]) THEN TrimRight(SubSeq(s, 1, Len(s) - 1)) ELSE s

\* String.prototype.trim
Trim(s) == TrimRight(TrimLeft(s))

\* the longest prefix of s made of digits
RECURSIVE DigitPrefix(_)
DigitPrefix(s) ==
    IF s # <<>> /\ IsDigit(Head(s)) THEN <<Head(s)>> \o DigitPrefix(Tail(s)) ELSE <<>>

RECURSIVE DecimalValue(_)
DecimalValue(ds) ==
    IF ds = <<>> THEN 0
    ELSE 10 * DecimalValue(SubSeq(ds, 1, Len(ds) - 1)) + DigitVal(ds[Len(ds)])

NaN == [isNaN |-> TRUE, value |-> 0]
Num(n) == [isNaN |-> FALSE, value |-> n]

\* parseInt(s): leading white space, an optional sign, then digits up to the
\* first character that is not one; NaN when there is no digit
parseInt(s) ==
    LET t == TrimLeft(s)
        signed == t # <<>> /\ Head(t) \in {"-", "+"}
        body == IF signed THEN Tail(t) ELSE t
        ds == DigitPrefix(body)
    IN  IF ds = <<>> THEN NaN
        ELSE IF signed /\ Head(t) = "-" THEN Num(0 - DecimalValue(ds))
        ELSE Num(DecimalValue(ds))

MathMin(a, b) == IF a < b THEN a ELSE b
MathMax(a, b) == IF a > b THEN a ELSE b

\* the score generateInsights returns when the reply has no integer
DefaultScore == 70

\* generateInsights without the clamp
ScoreOfReply_unclamped(text) ==
    LET score == parseInt(Trim(text))
    IN  IF score.isNaN THEN DefaultScore ELSE score.value

\* GeminiService.generateInsights, from the reply text to the returned score
ScoreOfReply(text) ==
    LET score == parseInt(Trim(text))
    IN  IF score.isNaN THEN DefaultScore ELSE MathMax(0, MathMin(100, score.value))

(***************************************************************************)
(* The items of the arrays the LLM returns: untyped JSON.  An item is null,*)
(* a nested array, or an object whose properties are each a string or      *)
(* absent (Undef); an array-valued property is Arr or NotArr.              *)
(***************************************************************************)
Null == [kind |-> "null"]

RawStep(id, action, description, expectedOutcome, dependencies) ==
    [kind |-> "object", id |-> id, action |-> action, description |-> description,
     expectedOutcome |-> expectedOutcome, dependencies |-> dependencies]

RawJourney(id, name, description, userType, priority, steps) ==
    [kind |-> "object", id |-> id, name |-> name, description |-> description,
     userType |-> userType, priority |-> priority, steps |-> steps]

RawEdgeCase(id, category, severity, title, description, affected, recommendation, impact) ==
    [kind |-> "object", id |-> id, category |-> category, severity |-> severity,
     title |-> title, description |-> description,
     affectedJourneys |-> affected, recommendation |-> recommendation,
     impact |-> impact]

\* the category of the EdgeCase type (types/index.ts)
EdgeCaseCategory == {"business_logic_gap", "flow_inconsistency", "operational_gap"}

\* x.f for a value x that is not null: a property of an object, undefined on
\* a primitive or an array
Prop(x, f) == IF x.kind = "object" THEN x[f] ELSE Undef

\* x.f for a property that may hold an array
ArrProp(x, f) == IF x.kind = "object" THEN x[f] ELSE NotArr

(***************************************************************************)
(* EdgeCaseFinder.validateJourneys / validateEdgeCases.  The JavaScript    *)
(* index of the item at position i is i - 1.                               *)
(***************************************************************************)
\* validateStep that numbers the synthesized id from 1
validateStep_oneBased(step, index, stepIndex) ==
    [id |-> OrElse(Prop(step, "id"),
                   "step-" \o ToString(index + 1) \o "-" \o ToString(stepIndex + 1)),
     action |-> OrElse(Prop(step, "action"), "Action " \o ToString(stepIndex + 1)),
     description |-> OrElse(Prop(step, "description"), "No description provided"),
     expectedOutcome |-> OrElse(Prop(step, "expectedOutcome"),
                                "Expected outcome not specified"),
     dependencies |-> IF ArrProp(step, "dependencies").isArray
                      THEN ArrProp(step, "dependencies").items ELSE <<>>]

validateStep(step, index, stepIndex) ==
    [id |-> OrElse(Prop(step, "id"),
                   "step-" \o ToString(index) \o "-" \o ToString(stepIndex)),
     action |-> OrElse(Prop(step, "action"), "Action " \o ToString(stepIndex + 1)),
     description |-> OrElse(Prop(step, "description"), "No description provided"),
     expectedOutcome |-> OrElse(Prop(step, "expectedOutcome"),
                                "Expected outcome not specified"),
     dependencies |-> IF ArrProp(step, "dependencies").isArray
                      THEN ArrProp(step, "dependencies").items ELSE <<>>]

\* validateJourney that prefixes the id the LLM supplied
validateJourney_prefixed(journey, index) ==
    [id |-> IF Truthy(Prop(journey, "id")) THEN "journey-" \o Prop(journey, "id")
            ELSE "journey-" \o ToString(index),
     name |-> OrElse(Prop(journey, "name"), "Journey " \o ToString(index + 1)),
     description |-> OrElse(Prop(journey, "description"), "No description provided"),
     userType |-> OrElse(Prop(journey, "userType"), "User"),
     priority |-> IF Prop(journey, "priority") \in {"high", "medium", "low"}
                  THEN Prop(journey, "priority") ELSE "medium",
     steps |-> IF ArrProp(journey, "steps").isArray
               THEN [k \in 1..Len(ArrProp(journey, "steps").items) |->
                        validateStep(ArrProp(journey, "steps").items[k], index, k - 1)]
               ELSE <<>>]

validateJourney(journey, index) ==
    [id |-> OrElse(Prop(journey, "id"), "journey-" \o ToString(index)),
     name |-> OrElse(Prop(journey, "name"), "Journey " \o ToString(index + 1)),
     description |-> OrElse(Prop(journey, "description"), "No description provided"),
     userType |-> OrElse(Prop(journey, "userType"), "User"),
     priority |-> IF Prop(journey, "priority") \in {"high", "medium", "low"}
                  THEN Prop(journey, "priority") ELSE "medium",
     steps |-> IF ArrProp(journey, "steps").isArray
               THEN [k \in 1..Len(ArrProp(journey, "steps").items) |->
                        validateStep(ArrProp(journey, "steps").items[k], index, k - 1)]
               ELSE <<>>]

\* the map of validateJourneys reads a property of a null journey or step
validateJourneysThrows(journeys) ==
    \E i \in 1..Len(journeys) :
        \/ IsNullish(journeys[i])
        \/ /\ ArrProp(journeys[i], "steps").isArray
           /\ \E k \in 1..Len(ArrProp(journeys[i], "steps").items) :
                  IsNullish(ArrProp(journeys[i], "steps").items[k])

validateJourneys(journeys) ==
    [i \in 1..Len(journeys) |-> validateJourney(journeys[i], i - 1)]

\* validateEdgeCase with 'critical' as the default severity
validateEdgeCase_defaultCritical(edgeCase, index) ==
    [id |-> OrElse(Prop(edgeCase, "id"), "edge-" \o ToString(index)),
     category |-> IF Prop(edgeCase, "category") \in
                        {"missing_flow", "inconsistency", "ux_gap", "logical_contradiction"}
                  THEN Prop(edgeCase, "category") ELSE "ux_gap",
     severity |-> IF Prop(edgeCase, "severity") \in {"critical", "moderate", "minor"}
                  THEN Prop(edgeCase, "severity") ELSE "critical",
     title |-> OrElse(Prop(edgeCase, "title"), "Issue " \o ToString(index + 1)),
     description |-> OrElse(Prop(edgeCase, "description"), "No description provided"),
     affectedJourneys |-> IF ArrProp(edgeCase, "affectedJourneys").isArray
                          THEN ArrProp(edgeCase, "affectedJourneys").items ELSE <<>>,
     recommendation |-> OrElse(Prop(edgeCase, "recommendation"),
                               "No recommendation provided"),
     impact |-> OrElse(Prop(edgeCase, "impact"), "Impact not specified")]

validateEdgeCase(edgeCase, index) ==
    [id |-> OrElse(Prop(edgeCase, "id"), "edge-" \o ToString(index)),
     category |-> IF Prop(edgeCase, "category") \in
                        {"missing_flow", "inconsistency", "ux_gap", "logical_contradiction"}
                  THEN Prop(edgeCase, "category") ELSE "ux_gap",
     severity |-> IF Prop(edgeCase, "severity") \in {"critical", "moderate", "minor"}
                  THEN Prop(edgeCase, "severity") ELSE "moderate",
     title |-> OrElse(Prop(edgeCase, "title"), "Issue " \o ToString(index + 1)),
     description |-> OrElse(Prop(edgeCase, "description"), "No description provided"),
     affectedJourneys |-> IF ArrProp(edgeCase, "affectedJourneys").isArray
                          THEN ArrProp(edgeCase, "affectedJourneys").items ELSE <<>>,
     recommendation |-> OrElse(Prop(edgeCase, "recommendation"),
                               "No recommendation provided"),
     impact |-> OrElse(Prop(edgeCase, "impact"), "Impact not specified")]

validateEdgeCasesThrows(edgeCases) ==
    \E i \in 1..Len(edgeCases) : IsNullish(edgeCases[i])

validateEdgeCases(edgeCases) ==
    [i \in 1..Len(edgeCases) |-> validateEdgeCase(edgeCases[i], i - 1)]

\* items.filter(e => e.severity === severity).length, on items none of which
\* is null
CountSeverity(items, severity) ==
    Cardinality({i \in 1..Len(items) : Prop(items[i], "severity") = severity})

\* the filter reads e.severity of every item: a null item throws
FilterThrows(items) == \E i \in 1..Len(items) : IsNullish(items[i])

(***************************************************************************)
(* The result record and its two producers.                                *)
(***************************************************************************)

\* analyzeDocument, the assembly of the genuine result
AssembleResult(id, documentName, context, journeys, edgeCases, coverageScore) ==
    [id |-> id,
     documentName |-> documentName,
     analyzedAt |-> "Date",
     context |-> context,
     journeys |-> validateJourneys(journeys),
     edgeCases |-> validateEdgeCases(edgeCases),
     summary |-> [totalJourneys |-> Len(journeys),
                  totalEdgeCases |-> Len(edgeCases),
                  criticalIssues |-> CountSeverity(edgeCases, "critical"),
                  coverageScore |-> coverageScore]]

\* what the assembly throws on, in its order of evaluation
AssembleThrows(journeys, edgeCases) ==
    \/ validateJourneysThrows(journeys)
    \/ validateEdgeCasesThrows(edgeCases)
    \/ FilterThrows(edgeCases)

mockJourneys ==
    << [id |-> "1",
        name |-> "User Registration Flow",
        description |-> "New user creates an account and completes onboarding",
        userType |-> "New User",
        priority |-> "high",
        steps |-> << [id |-> "1-1",
                      action |-> "Visit registration page",
                      description |-> "User navigates to sign-up form",
                      expectedOutcome |-> "Registration form loads successfully",
                      dependencies |-> <<>>],
                     [id |-> "1-2",
                      action |-> "Fill registration form",
                      description |-> "User enters email, password, and basic info",
                      expectedOutcome |-> "Form validates input in real-time",
                      dependencies |-> <<"1-1">>] >>] >>

mockEdgeCases ==
    << [id |-> "1",
        category |-> "missing_flow",
        severity |-> "critical",
        title |-> "AI Analysis Unavailable",
        description |-> "The AI service is currently unavailable. This is demo data to show the interface.",
        affectedJourneys |-> <<"1">>,
        recommendation |-> "Check your API key and internet connection, then try again.",
        impact |-> "Cannot perform real analysis of your PRD document."] >>

\* getFallbackAnalysis with the scorer's default in place of the zero score
getFallbackAnalysis_defaultScore(id, documentName, context) ==
    [id |-> id,
     documentName |-> documentName,
     analyzedAt |-> "Date",
     context |-> context,
     journeys |-> mockJourneys,
     edgeCases |-> mockEdgeCases,
     summary |-> [totalJourneys |-> Len(mockJourneys),
                  totalEdgeCases |-> Len(mockEdgeCases),
                  criticalIssues |-> 1,
                  coverageScore |-> DefaultScore]]

\* getFallbackAnalysis that returns the demo result without the context
getFallbackAnalysis_noContext(id, documentName, context) ==
    [id |-> id,
     documentName |-> documentName,
     analyzedAt |-> "Date",
     context |-> [company |-> Undef, problemStatement |-> Undef],
     journeys |-> mockJourneys,
     edgeCases |-> mockEdgeCases,
     summary |-> [totalJourneys |-> Len(mockJourneys),
                  totalEdgeCases |-> Len(mockEdgeCases),
                  criticalIssues |-> 1,
                  coverageScore |-> 0]]

getFallbackAnalysis(id, documentName, context) ==
    [id |-> id,
     documentName |-> documentName,
     analyzedAt |-> "Date",
     context |-> context,
     journeys |-> mockJourneys,
     edgeCases |-> mockEdgeCases,
     summary |-> [totalJourneys |-> Len(mockJourneys),
                  totalEdgeCases |-> Len(mockEdgeCases),
                  criticalIssues |-> 1,
                  coverageScore |-> 0]]

(***************************************************************************)
(* Progress events.                                                        *)
(***************************************************************************)
Status(stage, progress, message) ==
    [stage |-> stage, progress |-> progress, message |-> message]

ParsingStatus == Status("parsing", 10, "Initializing AI analysis...")
ExtractingStatus ==
    Status("extracting", 30, "AI is extracting user journeys and workflows...")
AnalyzingStatus ==
    Status("analyzing", 60, "AI is identifying edge cases and inconsistencies...")
GeneratingStatus ==
    Status("generating", 90, "Generating comprehensive analysis report...")
CompleteStatus == Status("complete", 100, "AI analysis complete!")

\* CatchStatus with a progress value of its own for the quota error
CatchStatus_progressByKind(message) ==
    IF message = "quota_exceeded"
    THEN Status("generating", 96, "API quota exceeded, showing demo analysis...")
    ELSE IF message = "invalid_api_key"
    THEN Status("generating", 95, "API key issue, showing demo analysis...")
    ELSE Status("generating", 95, "AI service unavailable, showing demo analysis...")

\* CatchStatus that reports the fallback at half of the progress
CatchStatus_halfway(message) ==
    IF message = "quota_exceeded"
    THEN Status("generating", 50, "API quota exceeded, showing demo analysis...")
    ELSE IF message = "invalid_api_key"
    THEN Status("generating", 50, "API key issue, showing demo analysis...")
    ELSE Status("generating", 50, "AI service unavailable, showing demo analysis...")

\* the event the catch of analyzeDocument emits for an error with this message
CatchStatus(message) ==
    IF message = "quota_exceeded"
    THEN Status("generating", 95, "API quota exceeded, showing demo analysis...")
    ELSE IF message = "invalid_api_key"
    THEN Status("generating", 95, "API key issue, showing demo analysis...")
    ELSE Status("generating", 95, "AI service unavailable, showing demo analysis...")

(***************************************************************************)
(* The three LLM stages of GeminiService, from the settled provider call   *)
(* to what the stage returns or throws.  A reply is the provider call's    *)
(* outcome: it rejects with an error, or resolves with a text.             *)
(***************************************************************************)
Resolves(text) == [rejects |-> FALSE, text |-> text, error |-> ErrorWithoutMessage]
Rejects(error) == [rejects |-> TRUE, text |-> <<>>, error |-> error]

Returned(value) == [thrown |-> FALSE, message |-> "", value |-> value]
Thrown(message) == [thrown |-> TRUE, message |-> message, value |-> <<>>]

\* The try block shared by analyzeForUserJourneys and analyzeForEdgeCases:
\* match, JSON.parse, and the catch that hands every error to handleApiError.
\* syntaxError is the SyntaxError JSON.parse raises, whose message is the
\* JavaScript engine's.
ParseArrayReply(reply, syntaxError, noMatchError) ==
    IF reply.rejects THEN Thrown(handleApiError(reply.error))
    ELSE IF ~HasArrayMatch(reply.text) THEN Thrown(handleApiError(noMatchError))
    ELSE IF ~JsonParses(ArrayMatch(reply.text)) THEN Thrown(handleApiError(syntaxError))
    ELSE Returned(JsonParse(ArrayMatch(reply.text)))

analyzeForUserJourneys(reply, syntaxError) ==
    ParseArrayReply(reply, syntaxError,
                    ErrorWith(<<"Could", "not", "parse", "journeys">>))

analyzeForEdgeCases(reply, syntaxError) ==
    ParseArrayReply(reply, syntaxError,
                    ErrorWith(<<"Could", "not", "parse", "issues">>))

generateInsights(reply) ==
    IF reply.rejects THEN Thrown(handleApiError(reply.error))
    ELSE Returned(ScoreOfReply(reply.text))

(***************************************************************************)
(* DocumentValidator: the keyword validators.  A document's content is a   *)
(* string; Len, SubSeq and \o act on strings as on sequences of            *)
(* characters.  The alphabet is ASCII.                                     *)
(***************************************************************************)
Char(s, i) == SubSeq(s, i, i)

\* \w and \s of the regular expressions
WordChars ==
    LET w == "abcdefghijklmnopqrstuvwxyzABCDEFGHIJKLMNOPQRSTUVWXYZ0123456789_"
    IN  {Char(w, i) : i \in 1..Len(w)}
WhiteSpace == {" ", "\n", "\t"}

\* the lower-case letter of each upper-case letter
LowerOf ==
    LET upper == "ABCDEFGHIJKLMNOPQRSTUVWXYZ"
        lower == "abcdefghijklmnopqrstuvwxyz"
    IN  [c \in {Char(upper, i) : i \in 1..Len(upper)} |->
            Char(lower, CHOOSE i \in 1..Len(upper) : Char(upper, i) = c)]

\* String.prototype.toLowerCase, character by character
RECURSIVE toLowerCase(_)
toLowerCase(s) ==
    IF Len(s) = 0 THEN ""
    ELSE IF Len(s) = 1 THEN (IF s \in DOMAIN LowerOf THEN LowerOf[s] ELSE s)
    ELSE toLowerCase(SubSeq(s, 1, Len(s) \div 2))
            \o toLowerCase(SubSeq(s, Len(s) \div 2 + 1, Len(s)))

\* s.replace(/[^\w\s]/g, ' ')
RECURSIVE ReplaceNonWord(_)
ReplaceNonWord(s) ==
    IF Len(s) = 0 THEN ""
    ELSE IF Len(s) = 1 THEN (IF s \in WordChars \cup WhiteSpace THEN s ELSE " ")
    ELSE ReplaceNonWord(SubSeq(s, 1, Len(s) \div 2))
            \o ReplaceNonWord(SubSeq(s, Len(s) \div 2 + 1, Len(s)))

\* s.split(/\s+/).length: one more than the runs of white space in s
SplitLength(s) ==
    1 + Cardinality({i \in 1..Len(s) :
                        /\ Char(s, i) \in WhiteSpace
                        /\ (i = 1 \/ Char(s, i - 1) \notin WhiteSpace)})

\* a.slice(0, n) and a.join(sep)
Slice(a, n) == SubSeq(a, 1, MathMin(n, Len(a)))

RECURSIVE Join(_, _)
Join(a, sep) ==
    IF a = <<>> THEN ""
    ELSE IF Len(a) = 1 THEN a[1]
    ELSE a[1] \o sep \o Join(Tail(a), sep)

\* keywords.filter(keyword => cleanContent.includes(keyword.toLowerCase()))
Matches(keywords, cleanContent) ==
    SelectSeq(keywords, LAMBDA keyword : Includes(cleanContent, toLowerCase(keyword)))

\* A confidence before it is rounded is a fraction [num, den], den > 0; no
\* score of the validators falls on a half or on a threshold, so the
\* floating-point value compares and rounds as the fraction does.
Exceeds(x, n) == x.num > n * x.den

\* Math.max(0, Math.min(100, x))
Clamp100(x) ==
    IF x.num < 0 THEN [num |-> 0, den |-> x.den]
    ELSE IF Exceeds(x, 100) THEN [num |-> 100 * x.den, den |-> x.den]
    ELSE x

\* Math.round of a fraction that is not negative
MathRound(x) == (2 * x.num + x.den) \div (2 * x.den)

ValidationResult(isPRD, confidence, reasons) ==
    [isPRD |-> isPRD, confidence |-> confidence, reasons |-> reasons]

prdKeywords ==
    <<"product requirements", "product requirement", "prd", "requirements document",
      "functional requirements", "non-functional requirements", "user stories",
      "acceptance criteria", "success metrics", "kpis", "objectives",
      "user journey", "user flow", "user experience", "user interface",
      "persona", "user persona", "target audience", "end user",
      "customer", "stakeholder", "use case", "user story",
      "feature", "functionality", "capability", "specification",
      "wireframe", "mockup", "prototype", "mvp", "minimum viable product",
      "roadmap", "milestone", "release", "sprint", "iteration",
      "business logic", "business rules", "business requirements",
      "revenue", "monetization", "pricing", "market", "competition",
      "value proposition", "problem statement", "solution",
      "api", "integration", "database", "architecture", "system",
      "platform", "framework", "security", "performance", "scalability",
      "authentication", "authorization", "workflow", "process">>

structureKeywords ==
    <<"overview", "introduction", "scope", "assumptions", "constraints",
      "dependencies", "risks", "timeline", "deliverables", "appendix",
      "glossary", "references", "version", "changelog", "revision">>

antiPatterns ==
    <<"recipe", "cooking", "ingredients", "temperature", "oven",
      "novel", "chapter", "character", "plot", "story",
      "poem", "verse", "rhyme", "stanza",
      "invoice", "payment", "billing", "receipt",
      "medical", "diagnosis", "treatment", "patient", "doctor",
      "legal", "contract", "agreement", "clause", "whereas">>

\* DocumentValidator.fallbackValidation: the richer keyword validator
fallbackValidation(content) ==
    LET cleanContent == ReplaceNonWord(toLowerCase(content))
        words == SplitLength(cleanContent)
        prdMatches == Matches(prdKeywords, cleanContent)
        structureMatches == Matches(structureKeywords, cleanContent)
        antiMatches == Matches(antiPatterns, cleanContent)
        maxScore == Len(prdKeywords) * 2 + Len(structureKeywords)
        score == Len(prdMatches) * 2 + Len(structureMatches) - Len(antiMatches) * 3
                 + (IF words < 100 THEN -10 ELSE IF words > 500 THEN 5 ELSE 0)
        reasons ==
            (IF Len(prdMatches) > 0
             THEN <<"Found " \o ToString(Len(prdMatches)) \o " PRD-related terms: "
                    \o Join(Slice(prdMatches, 3), ", ")
                    \o (IF Len(prdMatches) > 3 THEN "..." ELSE "")>>
             ELSE <<>>)
            \o (IF Len(structureMatches) > 0
                THEN <<"Document structure indicators found: "
                       \o Join(Slice(structureMatches, 3), ", ")>>
                ELSE <<>>)
            \o (IF Len(antiMatches) > 0
                THEN <<"Non-PRD content detected: " \o Join(Slice(antiMatches, 2), ", ")>>
                ELSE <<>>)
            \o (IF words < 100
                THEN <<"Document seems too short for a comprehensive PRD">>
                ELSE IF words > 500
                THEN <<"Document length suggests comprehensive content">>
                ELSE <<>>)
        confidence == Clamp100([num |-> score * 100, den |-> MathMax(maxScore, 1)])
        assessment ==
            IF Exceeds(confidence, 70)
            THEN "High confidence: This appears to be a well-structured PRD"
            ELSE IF Exceeds(confidence, 30)
            THEN "Moderate confidence: This may be a PRD or related product document"
            ELSE "Low confidence: This does not appear to be a typical PRD document"
    IN  ValidationResult(Exceeds(confidence, 30), MathRound(confidence),
                         <<assessment>> \o reasons)

simplePrdKeywords ==
    <<"product", "requirements", "feature", "user", "functionality",
      "specification", "workflow", "process", "system", "application",
      "interface", "design", "development", "implementation", "business",
      "objective", "goal", "scope", "overview", "description">>

\* a simpleValidation without the rule for short documents
simpleValidation_noPenalty(content) ==
    LET cleanContent == ReplaceNonWord(toLowerCase(content))
        words == SplitLength(cleanContent)
        prdMatches == Matches(simplePrdKeywords, cleanContent)
        score == Len(prdMatches) * 2 + (IF words > 100 THEN 10 ELSE 0)
        reasons ==
            (IF Len(prdMatches) > 0
             THEN <<"Found " \o ToString(Len(prdMatches)) \o " product-related terms">>
             ELSE <<>>)
            \o (IF words > 100 THEN <<"Document has substantial content">> ELSE <<>>)
        confidence == Clamp100([num |-> score * 2, den |-> 1])
        assessment ==
            IF Exceeds(confidence, 60)
            THEN "High confidence: This appears to be a product document"
            ELSE IF Exceeds(confidence, 20)
            THEN "Moderate confidence: This may be a product-related document"
            ELSE "Low confidence: This may not be a typical product document"
    IN  ValidationResult(Exceeds(confidence, 20), MathRound(confidence),
                         <<assessment>> \o reasons)

\* DocumentValidator.simpleValidation: the simplified keyword validator
simpleValidation(content) ==
    LET cleanContent == ReplaceNonWord(toLowerCase(content))
        words == SplitLength(cleanContent)
        prdMatches == Matches(simplePrdKeywords, cleanContent)
        score == Len(prdMatches) * 2
                 + (IF words < 50 THEN -10 ELSE IF words > 100 THEN 10 ELSE 0)
        reasons ==
            (IF Len(prdMatches) > 0
             THEN <<"Found " \o ToString(Len(prdMatches)) \o " product-related terms">>
             ELSE <<>>)
            \o (IF words < 50 THEN <<"Document seems too short">>
                ELSE IF words > 100 THEN <<"Document has substantial content">>
                ELSE <<>>)
        confidence == Clamp100([num |-> score * 2, den |-> 1])
        assessment ==
            IF Exceeds(confidence, 60)
            THEN "High confidence: This appears to be a product document"
            ELSE IF Exceeds(confidence, 20)
            THEN "Moderate confidence: This may be a product-related document"
            ELSE "Low confidence: This may not be a typical product document"
    IN  ValidationResult(Exceeds(confidence, 20), MathRound(confidence),
                         <<assessment>> \o reasons)

(***************************************************************************)
(* GeminiService.validatePRDDocument.  The reply text that should carry a  *)
(* JSON object is a sequence of tokens: the braces, prose, and "members",  *)
(* the well-formed member list of an object, nested values included.  The  *)
(* parsed object gives isPRD as a JSON literal or not at all, confidence   *)
(* as a number or not at all, and reasons as an array or as something else.*)
(***************************************************************************)
LBrace == [t |-> "{", v |-> NoValue]
RBrace == [t |-> "}", v |-> NoValue]
Members(v) == [t |-> "members", v |-> v]

\* the object of the text {}
EmptyObject ==
    [isPRD |-> Undef, confidence |-> [given |-> FALSE, value |-> 0], reasons |-> NotArr]

\* the object validatePRDDocument builds of the parsed reply
ValidationOfParsed(parsed) ==
    ValidationResult(
        parsed.isPRD = "true",
        MathMax(0, MathMin(100, IF parsed.confidence.given
                                THEN parsed.confidence.value ELSE 0)),
        IF parsed.reasons.isArray THEN parsed.reasons.items
        ELSE <<"AI analysis completed">>)

\* validatePRDDocument from the settled provider call on: what it returns or
\* throws.  text.match(/\{[\s\S]*\}/) spans from the first "{" to the last
\* "}", and JSON.parse accepts the span when it is one well-formed object.
validatePRDDocument(reply, syntaxError) ==
    LET text == reply.text
        hasMatch == \E i \in Positions(text, "{"), j \in Positions(text, "}") : i < j
        jsonMatch == SubSeq(text, Min(Positions(text, "{")), Max(Positions(text, "}")))
        parses == \/ jsonMatch = <<LBrace, RBrace>>
                  \/ /\ Len(jsonMatch) = 3
                     /\ jsonMatch[1] = LBrace
                     /\ jsonMatch[2].t = "members"
                     /\ jsonMatch[3] = RBrace
        parsed == IF Len(jsonMatch) = 2 THEN EmptyObject ELSE jsonMatch[2].v
    IN  IF reply.rejects THEN Thrown(handleApiError(reply.error))
        ELSE IF ~hasMatch
        THEN Thrown(handleApiError(
                        ErrorWith(<<"Could", "not", "parse", "validation", "response">>)))
        ELSE IF ~parses THEN Thrown(handleApiError(syntaxError))
        ELSE Returned(ValidationOfParsed(parsed))

(***************************************************************************)
(* State.                                                                  *)
(***************************************************************************)

\* the invocations of App.handleAnalyzeConfirm; each has its own sink
Runs == {"A", "B"}
NoCallback == "none"

VARIABLES
    updateProgress,   \* EdgeCaseFinder.updateProgress (static): the registered sink
    model,            \* GeminiService.model (static): whether it is initialised
    apiKey,           \* whether the build carries a Gemini API key
    pc,               \* per run: the await analyzeDocument is suspended at
    document,         \* per run: the document argument
    context,          \* per run: the context argument
    journeys,         \* per run: const journeys
    edgeCases,        \* per run: const edgeCases
    coverageScore,    \* per run: const coverageScore
    calls,            \* per run: the stage calls issued, with their arguments
    inflight,         \* per run: the stages whose LLM call has not settled
    events,           \* per run: the statuses the run passed to updateProgress
    sink,             \* per sink: the last status received, and from which run
    caught,           \* per run: the error analyzeDocument caught, and where
    settled,          \* per run: the state of the promise analyzeDocument returned
    result,           \* per run: the value the promise resolved with
    op, arg, ret,     \* a function applied on its own: name, argument, result
    variant,          \* which DocumentValidator the build carries
    validation,       \* the call of validatePRD: its position, argument, promise,
                      \* and what the keyword validator returned for the same
                      \* content in earlier calls
    deduction,        \* which deduction the deployment carries: the function
                      \* deduct_user_credits without ("plain") or with
                      \* ("locked") FOR UPDATE, or the client-side sequence
    user_credits,     \* table user_credits: the row of the user
    credit_usage_log, \* table credit_usage_log: the rows of the user, in order
    lock,             \* the session that holds the lock of the user_credits row
    credits,          \* per session: the state of useCredits
    request           \* per session: the CreditService call in flight, and
                      \* what its last deductCredits returned

vars == <<updateProgress, model, apiKey, pc, document, context, journeys,
          edgeCases, coverageScore, calls, inflight, events, sink, caught,
          settled, result, op, arg, ret, variant, validation, deduction,
          user_credits, credit_usage_log, lock, credits, request>>

pureVars == <<op, arg, ret>>
staticVars == <<model, apiKey>>
validatorVars == <<variant, validation>>
creditVars == <<deduction, user_credits, credit_usage_log, lock, credits, request>>
runVars == <<updateProgress, model, apiKey, pc, document, context, journeys,
             edgeCases, coverageScore, calls, inflight, events, sink, caught,
             settled, result>>

NoDocument == [name |-> "", content |-> ""]
NoContext == [company |-> Undef, problemStatement |-> Undef]
NoStatus == Status("parsing", 0, "")
NoError == [stage |-> "none", message |-> ""]
NoResult ==
    [id |-> "", documentName |-> "", analyzedAt |-> "", context |-> NoContext,
     journeys |-> <<>>, edgeCases |-> <<>>,
     summary |-> [totalJourneys |-> 0, totalEdgeCases |-> 0, criticalIssues |-> 0,
                  coverageScore |-> 0]]

\* the free credits of a new user
FreeCredits == 3

NoRow == [exists |-> FALSE, credits |-> 0, total_purchased |-> 0]
UserCredits(n, purchased) == [exists |-> TRUE, credits |-> n, total_purchased |-> purchased]

\* useCredits: credits is null (no row) or the record loaded, error is set
\* or null
Loaded(row) == [row |-> row, error |-> FALSE]

NoRequest ==
    [op |-> "none", pc |-> "", id |-> Undef, amount |-> 0, current |-> 0,
     hook |-> FALSE, returned |-> "none"]

NoValidation ==
    [pc |-> "idle", content |-> "", error |-> "", settled |-> "none",
     result |-> ValidationResult(FALSE, 0, <<>>), earlier |-> {}]

InitRuns ==
    /\ updateProgress = NoCallback
    /\ model = FALSE
    /\ pc = [r \in Runs |-> "idle"]
    /\ document = [r \in Runs |-> NoDocument]
    /\ context = [r \in Runs |-> NoContext]
    /\ journeys = [r \in Runs |-> <<>>]
    /\ edgeCases = [r \in Runs |-> <<>>]
    /\ coverageScore = [r \in Runs |-> 0]
    /\ calls = [r \in Runs |-> <<>>]
    /\ inflight = [r \in Runs |-> {}]
    /\ events = [r \in Runs |-> <<>>]
    /\ sink = [r \in Runs |-> [status |-> NoStatus, from |-> "none"]]
    /\ caught = [r \in Runs |-> NoError]
    /\ settled = [r \in Runs |-> "none"]
    /\ result = [r \in Runs |-> NoResult]

\* a signed-in user whose credits are loaded and who has spent none
InitCredits ==
    /\ deduction = "client"
    /\ user_credits = UserCredits(FreeCredits, 0)
    /\ credit_usage_log = <<>>
    /\ lock = "none"
    /\ credits = [r \in Runs |-> Loaded(UserCredits(FreeCredits, 0))]
    /\ request = [r \in Runs |-> NoRequest]

Init ==
    /\ InitRuns
    /\ apiKey \in BOOLEAN
    /\ op = "none" /\ arg = <<>> /\ ret = ""
    /\ variant = "rich"
    /\ validation = NoValidation
    /\ InitCredits

(***************************************************************************)
(* Steps shared by the actions.                                            *)
(***************************************************************************)

\* this.updateProgress?.(status), for each status in turn, with `callback`
\* the registered sink; the sink is React's setProcessingStatus, which keeps
\* the last status it was given
Notify(r, callback, statuses) ==
    IF callback = NoCallback \/ statuses = <<>>
    THEN UNCHANGED <<events, sink>>
    ELSE /\ events' = [events EXCEPT ![r] = @ \o statuses]
         /\ sink' = [sink EXCEPT ![callback] =
                        [status |-> statuses[Len(statuses)], from |-> r]]

\* a stage call that is handed the coerced journeys instead of the raw ones
StageCall_coerced(r, stage, js, issues) ==
    [stage |-> stage, content |-> document[r].content,
     journeys |-> validateJourneys(js), issues |-> issues, context |-> context[r]]

\* A stage call: the arguments analyzeDocument passes to GeminiService
StageCall(r, stage, js, issues) ==
    [stage |-> stage, content |-> document[r].content, journeys |-> js,
     issues |-> issues, context |-> context[r]]

\* a catch that returns the fallback result without a status of its own
Catch_silent(r, stage, message, id, statuses) ==
    /\ Notify(r, updateProgress, statuses)
    /\ caught' = [caught EXCEPT ![r] = [stage |-> stage, message |-> message]]
    /\ result' = [result EXCEPT ![r] =
                     getFallbackAnalysis(id, document[r].name, context[r])]
    /\ settled' = [settled EXCEPT ![r] = "fulfilled"]
    /\ pc' = [pc EXCEPT ![r] = "done"]

\* catch (error) of analyzeDocument, after the run has emitted `statuses` in
\* the same turn of the event loop: one more status, then the fallback result
Catch(r, stage, message, id, statuses) ==
    /\ Notify(r, updateProgress, Append(statuses, CatchStatus(message)))
    /\ caught' = [caught EXCEPT ![r] = [stage |-> stage, message |-> message]]
    /\ result' = [result EXCEPT ![r] =
                     getFallbackAnalysis(id, document[r].name, context[r])]
    /\ settled' = [settled EXCEPT ![r] = "fulfilled"]
    /\ pc' = [pc EXCEPT ![r] = "done"]

(***************************************************************************)
(* App.handleAnalyzeConfirm and the continuations of analyzeDocument.      *)
(* `id` is the Math.random id of the result the step may produce.          *)
(***************************************************************************)

\* App.handleAnalyzeConfirm, which returns at once unless the credits that
\* useCredits holds are at least 1, registers the sink and calls
\* analyzeDocument, which runs to its first await: the parsing status, then
\* delay(500)
handleAnalyzeConfirm(r, doc, ctx) ==
    /\ pc[r] = "idle"
    /\ credits[r].row.exists /\ credits[r].row.credits >= 1
    /\ updateProgress' = r
    /\ document' = [document EXCEPT ![r] = doc]
    /\ context' = [context EXCEPT ![r] = ctx]
    /\ Notify(r, r, <<ParsingStatus>>)
    /\ settled' = [settled EXCEPT ![r] = "pending"]
    /\ pc' = [pc EXCEPT ![r] = "delay500"]
    /\ UNCHANGED <<staticVars, journeys, edgeCases, coverageScore, calls,
                   inflight, caught, result, pureVars, validatorVars, creditVars>>

\* delay(500) fires: the extracting status, then analyzeForUserJourneys up to
\* its await of generateContent; initialize() throws without an API key
Extracting(r, id) ==
    /\ pc[r] = "delay500"
    /\ IF ~model /\ ~apiKey
       THEN /\ Catch(r, "journeys", NoApiKeyError, id, <<ExtractingStatus>>)
            /\ UNCHANGED <<model, calls, inflight>>
       ELSE /\ model' = TRUE
            /\ Notify(r, updateProgress, <<ExtractingStatus>>)
            /\ calls' = [calls EXCEPT ![r] =
                            Append(@, StageCall(r, "journeys", <<>>, <<>>))]
            /\ inflight' = [inflight EXCEPT ![r] = @ \cup {"journeys"}]
            /\ pc' = [pc EXCEPT ![r] = "journeys"]
            /\ UNCHANGED <<caught, result, settled>>
    /\ UNCHANGED <<updateProgress, apiKey, document, context, journeys,
                   edgeCases, coverageScore, pureVars, validatorVars, creditVars>>

\* JourneysSettled that issues the journeys call once more when it has failed
JourneysSettled_retry(r, reply, syntaxError, id) ==
    /\ pc[r] = "journeys"
    /\ LET outcome == analyzeForUserJourneys(reply, syntaxError)
       IN  IF outcome.thrown /\ Len(calls[r]) = 1
           THEN /\ calls' = [calls EXCEPT ![r] =
                               Append(@, StageCall(r, "journeys", <<>>, <<>>))]
                /\ UNCHANGED <<inflight, journeys, events, sink, caught, result,
                               settled, pc>>
           ELSE IF outcome.thrown
           THEN /\ inflight' = [inflight EXCEPT ![r] = @ \ {"journeys"}]
                /\ Catch(r, "journeys", outcome.message, id, <<>>)
                /\ UNCHANGED <<journeys, calls>>
           ELSE /\ inflight' = [inflight EXCEPT ![r] = @ \ {"journeys"}]
                /\ journeys' = [journeys EXCEPT ![r] = outcome.value]
                /\ pc' = [pc EXCEPT ![r] = "delay800"]
                /\ UNCHANGED <<events, sink, caught, result, settled, calls>>
    /\ UNCHANGED <<updateProgress, staticVars, document, context, edgeCases,
                   coverageScore, pureVars, validatorVars, creditVars>>

\* the journeys call settles: analyzeForUserJourneys returns or throws, and
\* analyzeDocument goes on to delay(800) or to its catch
JourneysSettled(r, reply, syntaxError, id) ==
    /\ pc[r] = "journeys"
    /\ inflight' = [inflight EXCEPT ![r] = @ \ {"journeys"}]
    /\ LET outcome == analyzeForUserJourneys(reply, syntaxError)
       IN  IF outcome.thrown
           THEN /\ Catch(r, "journeys", outcome.message, id, <<>>)
                /\ UNCHANGED journeys
           ELSE /\ journeys' = [journeys EXCEPT ![r] = outcome.value]
                /\ pc' = [pc EXCEPT ![r] = "delay800"]
                /\ UNCHANGED <<events, sink, caught, result, settled>>
    /\ UNCHANGED <<updateProgress, staticVars, document, context, edgeCases,
                   coverageScore, calls, pureVars, validatorVars, creditVars>>

\* delay(800) fires: the analyzing status, then analyzeForEdgeCases up to its
\* await of generateContent
Analyzing(r, id) ==
    /\ pc[r] = "delay800"
    /\ IF ~model /\ ~apiKey
       THEN /\ Catch(r, "edgeCases", NoApiKeyError, id, <<AnalyzingStatus>>)
            /\ UNCHANGED <<model, calls, inflight>>
       ELSE /\ model' = TRUE
            /\ Notify(r, updateProgress, <<AnalyzingStatus>>)
            /\ calls' = [calls EXCEPT ![r] =
                            Append(@, StageCall(r, "edgeCases", journeys[r], <<>>))]
            /\ inflight' = [inflight EXCEPT ![r] = @ \cup {"edgeCases"}]
            /\ pc' = [pc EXCEPT ![r] = "edgeCases"]
            /\ UNCHANGED <<caught, result, settled>>
    /\ UNCHANGED <<updateProgress, apiKey, document, context, journeys,
                   edgeCases, coverageScore, pureVars, validatorVars, creditVars>>

\* the edge-case call settles
EdgeCasesSettled(r, reply, syntaxError, id) ==
    /\ pc[r] = "edgeCases"
    /\ inflight' = [inflight EXCEPT ![r] = @ \ {"edgeCases"}]
    /\ LET outcome == analyzeForEdgeCases(reply, syntaxError)
       IN  IF outcome.thrown
           THEN /\ Catch(r, "edgeCases", outcome.message, id, <<>>)
                /\ UNCHANGED edgeCases
           ELSE /\ edgeCases' = [edgeCases EXCEPT ![r] = outcome.value]
                /\ pc' = [pc EXCEPT ![r] = "delay1000"]
                /\ UNCHANGED <<events, sink, caught, result, settled>>
    /\ UNCHANGED <<updateProgress, staticVars, document, context, journeys,
                   coverageScore, calls, pureVars, validatorVars, creditVars>>

\* Generating whose severity counts, thrown outside any try block of
\* generateInsights, are never handled: the run stays suspended
Generating_stuck(r, id) ==
    /\ pc[r] = "delay1000"
    /\ ~FilterThrows(edgeCases[r])
    /\ model' = TRUE
    /\ Notify(r, updateProgress, <<GeneratingStatus>>)
    /\ calls' = [calls EXCEPT ![r] =
                    Append(@, StageCall(r, "insights", journeys[r], edgeCases[r]))]
    /\ inflight' = [inflight EXCEPT ![r] = @ \cup {"insights"}]
    /\ pc' = [pc EXCEPT ![r] = "insights"]
    /\ UNCHANGED <<caught, result, settled>>
    /\ UNCHANGED <<updateProgress, apiKey, document, context, journeys,
                   edgeCases, coverageScore, pureVars, validatorVars, creditVars>>

\* delay(1000) fires: the generating status, then generateInsights up to its
\* await of generateContent; the severity counts of its prompt are computed
\* before its try block and throw on a null issue
Generating(r, id) ==
    /\ pc[r] = "delay1000"
    /\ IF ~model /\ ~apiKey
       THEN /\ Catch(r, "insights", NoApiKeyError, id, <<GeneratingStatus>>)
            /\ UNCHANGED <<model, calls, inflight>>
       ELSE IF FilterThrows(edgeCases[r])
       THEN /\ Catch(r, "insights", TypeError, id, <<GeneratingStatus>>)
            /\ model' = TRUE
            /\ UNCHANGED <<calls, inflight>>
       ELSE /\ model' = TRUE
            /\ Notify(r, updateProgress, <<GeneratingStatus>>)
            /\ calls' = [calls EXCEPT ![r] =
                            Append(@, StageCall(r, "insights", journeys[r], edgeCases[r]))]
            /\ inflight' = [inflight EXCEPT ![r] = @ \cup {"insights"}]
            /\ pc' = [pc EXCEPT ![r] = "insights"]
            /\ UNCHANGED <<caught, result, settled>>
    /\ UNCHANGED <<updateProgress, apiKey, document, context, journeys,
                   edgeCases, coverageScore, pureVars, validatorVars, creditVars>>

\* the scoring call settles
InsightsSettled(r, reply, id) ==
    /\ pc[r] = "insights"
    /\ inflight' = [inflight EXCEPT ![r] = @ \ {"insights"}]
    /\ LET outcome == generateInsights(reply)
       IN  IF outcome.thrown
           THEN /\ Catch(r, "insights", outcome.message, id, <<>>)
                /\ UNCHANGED coverageScore
           ELSE /\ coverageScore' = [coverageScore EXCEPT ![r] = outcome.value]
                /\ pc' = [pc EXCEPT ![r] = "delay600"]
                /\ UNCHANGED <<events, sink, caught, result, settled>>
    /\ UNCHANGED <<updateProgress, staticVars, document, context, journeys,
                   edgeCases, calls, pureVars, validatorVars, creditVars>>

\* Complete with the assembly outside the try block: its error rejects the
\* promise
Complete_uncaught(r, id) ==
    /\ pc[r] = "delay600"
    /\ IF AssembleThrows(journeys[r], edgeCases[r])
       THEN /\ settled' = [settled EXCEPT ![r] = "rejected"]
            /\ pc' = [pc EXCEPT ![r] = "done"]
            /\ UNCHANGED <<events, sink, caught, result>>
       ELSE /\ result' = [result EXCEPT ![r] =
                             AssembleResult(id, document[r].name, context[r],
                                            journeys[r], edgeCases[r], coverageScore[r])]
            /\ Notify(r, updateProgress, <<CompleteStatus>>)
            /\ settled' = [settled EXCEPT ![r] = "fulfilled"]
            /\ pc' = [pc EXCEPT ![r] = "done"]
            /\ UNCHANGED caught
    /\ UNCHANGED <<updateProgress, staticVars, document, context, journeys,
                   edgeCases, coverageScore, calls, inflight, pureVars, validatorVars, creditVars>>

\* delay(600) fires: the result is assembled, the complete status emitted and
\* the result returned; an error of the assembly goes to the catch
Complete(r, id) ==
    /\ pc[r] = "delay600"
    /\ IF AssembleThrows(journeys[r], edgeCases[r])
       THEN Catch(r, "assemble", TypeError, id, <<>>)
       ELSE /\ result' = [result EXCEPT ![r] =
                             AssembleResult(id, document[r].name, context[r],
                                            journeys[r], edgeCases[r], coverageScore[r])]
            /\ Notify(r, updateProgress, <<CompleteStatus>>)
            /\ settled' = [settled EXCEPT ![r] = "fulfilled"]
            /\ pc' = [pc EXCEPT ![r] = "done"]
            /\ UNCHANGED caught
    /\ UNCHANGED <<updateProgress, staticVars, document, context, journeys,
                   edgeCases, coverageScore, calls, inflight, pureVars, validatorVars, creditVars>>

(***************************************************************************)
(* DocumentValidator.validatePRD, in the build with the LLM validation     *)
(* ("rich") and in the build with the simplified validation ("simple").    *)
(***************************************************************************)

\* ValidationSettled whose catch lets the error of the LLM call through
ValidationSettled_rethrow(reply, syntaxError) ==
    /\ validation.pc = "awaiting"
    /\ LET outcome == validatePRDDocument(reply, syntaxError)
       IN  validation' =
               IF outcome.thrown
               THEN [validation EXCEPT !.pc = "done", !.error = outcome.message,
                                       !.settled = "rejected"]
               ELSE [validation EXCEPT !.pc = "done", !.settled = "fulfilled",
                                       !.result = outcome.value]
    /\ UNCHANGED <<updateProgress, staticVars, pc, document, context, journeys,
                   edgeCases, coverageScore, calls, inflight, events, sink,
                   caught, settled, result, pureVars, variant, creditVars>>

\* ValidationSettled whose catch reports the error it caught as the first of
\* the reasons
ValidationSettled_reportsError(reply, syntaxError) ==
    /\ validation.pc = "awaiting"
    /\ LET outcome == validatePRDDocument(reply, syntaxError)
           byKeywords == fallbackValidation(validation.content)
       IN  validation' =
               IF outcome.thrown
               THEN [validation EXCEPT
                        !.pc = "done", !.error = outcome.message,
                        !.settled = "fulfilled",
                        !.result = [byKeywords EXCEPT
                                       !.reasons = <<outcome.message>> \o @]]
               ELSE [validation EXCEPT !.pc = "done", !.settled = "fulfilled",
                                       !.result = outcome.value]
    /\ UNCHANGED <<updateProgress, staticVars, pc, document, context, journeys,
                   edgeCases, coverageScore, calls, inflight, events, sink,
                   caught, settled, result, pureVars, variant, creditVars>>

\* the LLM validation call settles: validatePRD returns what
\* validatePRDDocument returned, or catches what it threw and returns the
\* keyword validation
ValidationSettled(reply, syntaxError) ==
    /\ validation.pc = "awaiting"
    /\ LET outcome == validatePRDDocument(reply, syntaxError)
       IN  validation' =
               IF outcome.thrown
               THEN [validation EXCEPT !.pc = "done", !.error = outcome.message,
                                       !.settled = "fulfilled",
                                       !.result = fallbackValidation(validation.content)]
               ELSE [validation EXCEPT !.pc = "done", !.settled = "fulfilled",
                                       !.result = outcome.value]
    /\ UNCHANGED <<updateProgress, staticVars, pc, document, context, journeys,
                   edgeCases, coverageScore, calls, inflight, events, sink,
                   caught, settled, result, pureVars, variant, creditVars>>

\* validatePRD(content) up to its first await, for a document that is
\* uploaded, or uploaded once more after its validation has settled.  The
\* simplified build returns simpleValidation at once; the other calls
\* validatePRDDocument, whose initialize() throws without an API key, which
\* validatePRD catches
validatePRD(content) ==
    /\ \/ validation.pc = "idle"
       \/ validation.pc = "done" /\ content = validation.content
    /\ LET byKeywords == /\ validation.pc = "done"
                         /\ validation.settled = "fulfilled"
                         /\ (variant = "simple" \/ validation.error # "")
           call == [NoValidation EXCEPT
                       !.content = content,
                       !.earlier = IF byKeywords
                                   THEN validation.earlier \cup {validation.result}
                                   ELSE validation.earlier]
       IN  IF variant = "simple"
           THEN /\ validation' = [call EXCEPT
                                     !.pc = "done",
                                     !.settled = "fulfilled",
                                     !.result = simpleValidation(content)]
                /\ UNCHANGED model
           ELSE IF ~model /\ ~apiKey
           THEN /\ validation' = [call EXCEPT
                                     !.pc = "done",
                                     !.error = NoApiKeyError,
                                     !.settled = "fulfilled",
                                     !.result = fallbackValidation(content)]
                /\ UNCHANGED model
           ELSE /\ validation' = [call EXCEPT
                                     !.pc = "awaiting",
                                     !.settled = "pending"]
                /\ model' = TRUE
    /\ UNCHANGED <<updateProgress, apiKey, pc, document, context, journeys,
                   edgeCases, coverageScore, calls, inflight, events, sink,
                   caught, settled, result, pureVars, variant, creditVars>>

(***************************************************************************)
(* Credits.  The sessions are those of one user; each statement that a     *)
(* session sends to the database is one step, and a row lock taken by      *)
(* SELECT ... FOR UPDATE is held until the function returns.               *)
(***************************************************************************)

\* setCredits(userCredits) of loadCredits, as the call in flight returns
Loads(r, row) ==
    /\ credits' = [credits EXCEPT ![r] = Loaded(row)]
    /\ request' = [request EXCEPT ![r].op = "none", ![r].pc = ""]

\* loadCredits (on mount, on refresh): getUserCredits up to its await of the
\* select
loadCredits(r) ==
    /\ request[r].op = "none"
    /\ credits' = [credits EXCEPT ![r].error = FALSE]
    /\ request' = [request EXCEPT ![r].op = "get", ![r].pc = "select"]
    /\ UNCHANGED <<deduction, user_credits, credit_usage_log, lock, runVars,
                   pureVars, validatorVars>>

\* the select of getUserCredits settles: the row, or PGRST116 and the insert
\* of initializeUserCredits
getUserCredits(r) ==
    /\ request[r].op = "get" /\ request[r].pc = "select"
    /\ IF user_credits.exists
       THEN Loads(r, user_credits)
       ELSE /\ request' = [request EXCEPT ![r].pc = "insert"]
            /\ UNCHANGED credits
    /\ UNCHANGED <<deduction, user_credits, credit_usage_log, lock, runVars,
                   pureVars, validatorVars>>

\* an initializeUserCredits that does not handle the duplicate key
initializeUserCredits_throws(r) ==
    /\ request[r].op = "get" /\ request[r].pc = "insert"
    /\ IF ~user_credits.exists
       THEN /\ user_credits' = UserCredits(FreeCredits, 0)
            /\ Loads(r, UserCredits(FreeCredits, 0))
       ELSE /\ credits' = [credits EXCEPT ![r].error = TRUE]
            /\ request' = [request EXCEPT ![r].op = "none", ![r].pc = ""]
            /\ UNCHANGED user_credits
    /\ UNCHANGED <<deduction, credit_usage_log, lock, runVars, pureVars,
                   validatorVars>>

\* the insert of initializeUserCredits settles: the new row, or 23505 and a
\* second select, which settles in turn; an error of that select is thrown
\* on to loadCredits, which sets error
initializeUserCredits(r) ==
    /\ request[r].op = "get" /\ request[r].pc \in {"insert", "fetch"}
    /\ IF request[r].pc = "insert"
       THEN IF ~user_credits.exists
            THEN /\ user_credits' = UserCredits(FreeCredits, 0)
                 /\ Loads(r, UserCredits(FreeCredits, 0))
            ELSE /\ request' = [request EXCEPT ![r].pc = "fetch"]
                 /\ UNCHANGED <<user_credits, credits>>
       ELSE /\ IF user_credits.exists
               THEN Loads(r, user_credits)
               ELSE /\ credits' = [credits EXCEPT ![r].error = TRUE]
                    /\ request' = [request EXCEPT ![r].op = "none", ![r].pc = ""]
            /\ UNCHANGED user_credits
    /\ UNCHANGED <<deduction, credit_usage_log, lock, runVars, pureVars,
                   validatorVars>>

\* the trigger on auth.users: INSERT ... ON CONFLICT (user_id) DO NOTHING
initialize_user_credits ==
    /\ user_credits' = IF user_credits.exists THEN user_credits
                       ELSE UserCredits(FreeCredits, 0)
    /\ UNCHANGED <<deduction, credit_usage_log, lock, credits, request, runVars,
                   pureVars, validatorVars>>

\* CreditService.deductCredits (hook = FALSE) or useCredits.deductCredits
\* (hook = TRUE) up to the first await
deductCredits(r, id, amount, hook) ==
    /\ request[r].op = "none"
    /\ request' = [request EXCEPT ![r] =
                      [op |-> "deduct", pc |-> "select", id |-> id,
                       amount |-> amount, current |-> 0, hook |-> hook,
                       returned |-> "none"]]
    /\ UNCHANGED <<deduction, user_credits, credit_usage_log, lock, credits,
                   runVars, pureVars, validatorVars>>

\* handleAnalyzeConfirm after analyzeDocument has returned: the result is
\* shown (setAnalysisResult) and deductCredits(result.id, 1) called
AnalysisReturned(r) ==
    /\ pc[r] = "done" /\ settled[r] = "fulfilled"
    /\ request[r].op = "none"
    /\ pc' = [pc EXCEPT ![r] = "deducting"]
    /\ request' = [request EXCEPT ![r] =
                      [op |-> "deduct", pc |-> "select", id |-> result[r].id,
                       amount |-> 1, current |-> 0, hook |-> TRUE,
                       returned |-> "none"]]
    /\ UNCHANGED <<deduction, user_credits, credit_usage_log, lock, credits,
                   updateProgress, model, apiKey, document, context, journeys,
                   edgeCases, coverageScore, calls, inflight, events, sink,
                   caught, settled, result, pureVars, validatorVars>>

\* a uuid parameter or column takes NULL or a text of the form of a uuid
AcceptsId(id) == id = Undef \/ Len(id) = 36

\* CreditService.deductCredits returns true or false, or throws; useCredits
\* then reloads the credits after true
Returns(r, value) ==
    LET reloads == value = "true" /\ request[r].hook
    IN  request' = [request EXCEPT
                       ![r].returned = value,
                       ![r].op = IF reloads THEN "get" ELSE "none",
                       ![r].pc = IF reloads THEN "select" ELSE ""]

\* a log row that records the balance the deduction found
LogRow_before(q) ==
    [analysis_result_id |-> q.id, credits_used |-> q.amount,
     remaining_credits |-> q.current]

\* the row inserted into credit_usage_log
LogRow(q) ==
    [analysis_result_id |-> q.id, credits_used |-> q.amount,
     remaining_credits |-> q.current - q.amount]

\* The deduction, statement by statement.  The function deduct_user_credits
\* is not entered when PostgREST cannot cast p_analysis_result_id to uuid.
\* Its SELECT reads the balance (FOR UPDATE: once the row lock is free, and
\* takes it); its UPDATE, for which it waits for the row lock, writes the
\* balance computed from what was read, and the log row is inserted in the
\* same transaction.  The client-side sequence is a select, an update and an
\* insert whose error is not reported.
deduct_user_credits(r) ==
    LET q == request[r]
    IN  /\ q.op = "deduct"
        /\ IF q.pc = "select"
           THEN /\ deduction = "locked" /\ AcceptsId(q.id) => lock = "none"
                /\ IF deduction # "client" /\ ~AcceptsId(q.id)
                   THEN Returns(r, "throws") /\ UNCHANGED lock
                   ELSE IF ~user_credits.exists
                   THEN /\ Returns(r, IF deduction = "locked" THEN "throws"
                                      ELSE "false")
                        /\ UNCHANGED lock
                   ELSE IF user_credits.credits < q.amount
                   THEN Returns(r, "false") /\ UNCHANGED lock
                   ELSE /\ request' = [request EXCEPT
                                          ![r].pc = "update",
                                          ![r].current = user_credits.credits]
                        /\ lock' = IF deduction = "locked" THEN r ELSE lock
                /\ UNCHANGED <<user_credits, credit_usage_log>>
           ELSE IF q.pc = "update"
           THEN /\ lock \in {"none", r}
                /\ user_credits' =
                       [user_credits EXCEPT !.credits = q.current - q.amount]
                /\ lock' = "none"
                /\ IF deduction = "client"
                   THEN /\ request' = [request EXCEPT ![r].pc = "log"]
                        /\ UNCHANGED credit_usage_log
                   ELSE /\ credit_usage_log' = Append(credit_usage_log, LogRow(q))
                        /\ Returns(r, "true")
           ELSE /\ q.pc = "log"
                /\ credit_usage_log' = IF AcceptsId(q.id)
                                       THEN Append(credit_usage_log, LogRow(q))
                                       ELSE credit_usage_log
                /\ Returns(r, "true")
                /\ UNCHANGED <<user_credits, lock>>
        /\ UNCHANGED <<deduction, credits, runVars, pureVars, validatorVars>>

\* add_user_credits, called on its own: the UPDATE, and when no row was
\* found the INSERT
add_user_credits(amount) ==
    /\ lock = "none"
    /\ user_credits' =
           IF user_credits.exists
           THEN UserCredits(user_credits.credits + amount,
                            user_credits.total_purchased + amount)
           ELSE UserCredits(amount, amount)
    /\ UNCHANGED <<deduction, credit_usage_log, lock, credits, request, runVars,
                   pureVars, validatorVars>>

(***************************************************************************)
(* Inputs.                                                                 *)
(***************************************************************************)
Documents ==
    {[name |-> "checkout.pdf", content |-> "Checkout PRD"],
     [name |-> "signup.txt", content |-> "Sign-up PRD"]}

Contexts ==
    {NoContext, [company |-> "Acme", problemStatement |-> "Cart abandonment"]}

\* Math.random().toString(36).substr(2, 9)
ResultIds == {"k3x9q0ab1", "p07qz4m2c"}

GoodStep == RawStep("step_1", "Open the form", "The form opens", Undef, NotArr)

GoodJourney ==
    RawJourney("journey_1", "Sign up", "A visitor creates an account", "Visitor",
               "high", Arr(<<GoodStep>>))
BareJourney == RawJourney(Undef, Undef, Undef, Undef, "urgent", NotArr)
NullStepJourney ==
    RawJourney("journey_1", "", Undef, Undef, Undef, Arr(<<GoodStep, Null>>))

JourneyItems == {Null, GoodJourney, BareJourney, NullStepJourney}

CriticalIssue ==
    RawEdgeCase("issue_1", "missing_flow", "critical", "No retry rule",
                "Payment retry is undefined", Arr(<<"journey_1">>),
                "Define the retry policy", "Checkout blocks")
HighIssue ==
    RawEdgeCase(Undef, "requirements_gap", "high", Undef, Undef, NotArr, Undef, Undef)
EdgeCaseItems == {Null, CriticalIssue, HighIssue}

\* the arrays of at most n items
Arrays(items, n) == UNION {[1..k -> items] : k \in 0..n}

\* the text of an array: its items between brackets
Wrap(a) == <<LB>> \o [i \in 1..Len(a) |-> Val(a[i])] \o <<RB>>

\* texts that hold no array, or none that parses
MalformedTexts ==
    {<<>>, <<Prose>>, <<RB, LB>>, <<LB, Prose, RB>>, <<LB, LB, RB>>,
     <<LB, RB, Prose, LB, RB>>}

ArrayTexts(items) ==
    {Wrap(a) : a \in Arrays(items, MaxItems)}
        \cup {<<Prose>> \o Wrap(a) \o <<Prose>> : a \in Arrays(items, 1)}
        \cup {<<LB, LB, RB, RB>>}
        \cup MalformedTexts

ScoreTexts ==
    {<<"8", "5">>, <<" ", "8", "5", " ">>, <<"8", "5", ".", "7">>, <<"+", "8", "5">>,
     <<"-", "5">>, <<"1", "5", "0">>,
     <<>>, <<"a", "b", "c">>, <<"S", ":", " ", "8", "5">>, <<"-">>}

\* provider errors, as generateContent rejects with
ProviderErrors ==
    {ErrorWithoutMessage,
     ErrorWith(<<"429", "Too", "Many", "Requests">>),
     ErrorWith(<<"API", "key", "not", "valid">>),
     ErrorWith(<<"quota", "exhausted">>),
     ErrorWith(<<"fetch", "failed">>)}

\* the SyntaxError of JSON.parse; V8 quotes the offending text in the message
SyntaxErrors ==
    {ErrorWith(<<"Unexpected", "token">>),
     ErrorWith(<<"Unexpected", "token", "quota">>)}

Replies(texts) ==
    {Resolves(t) : t \in texts} \cup {Rejects(e) : e \in ProviderErrors}

(***************************************************************************)
(* One analysis at a time: the run the application's user interface allows.*)
(***************************************************************************)
Next ==
    \E r \in {"A"} :
        \/ \E doc \in Documents, ctx \in Contexts : handleAnalyzeConfirm(r, doc, ctx)
        \/ \E id \in ResultIds : Extracting(r, id)
        \/ \E reply \in Replies(ArrayTexts(JourneyItems)), e \in SyntaxErrors,
              id \in ResultIds : JourneysSettled(r, reply, e, id)
        \/ \E id \in ResultIds : Analyzing(r, id)
        \/ \E reply \in Replies(ArrayTexts(EdgeCaseItems)), e \in SyntaxErrors,
              id \in ResultIds : EdgeCasesSettled(r, reply, e, id)
        \/ \E id \in ResultIds : Generating(r, id)
        \/ \E reply \in Replies(ScoreTexts), id \in ResultIds :
              InsightsSettled(r, reply, id)
        \/ \E id \in ResultIds : Complete(r, id)

Spec == Init /\ [][Next]_vars

\* the continuations of a run: what the timers and the LLM provider drive
RunStep(r) ==
    \/ \E id \in ResultIds : Extracting(r, id)
    \/ \E reply \in Replies(ArrayTexts(JourneyItems)), e \in SyntaxErrors,
          id \in ResultIds : JourneysSettled(r, reply, e, id)
    \/ \E id \in ResultIds : Analyzing(r, id)
    \/ \E reply \in Replies(ArrayTexts(EdgeCaseItems)), e \in SyntaxErrors,
          id \in ResultIds : EdgeCasesSettled(r, reply, e, id)
    \/ \E id \in ResultIds : Generating(r, id)
    \/ \E reply \in Replies(ScoreTexts), id \in ResultIds :
          InsightsSettled(r, reply, id)
    \/ \E id \in ResultIds : Complete(r, id)

\* every timer fires and every LLM call settles
FairSpec == Spec /\ WF_vars(RunStep("A"))

(***************************************************************************)
(* Properties of a run of analyzeDocument.                                 *)
(***************************************************************************)
Done(r) == pc[r] = "done"
Genuine(r) == Done(r) /\ caught[r].stage = "none"
FellBack(r) == Done(r) /\ caught[r].stage # "none"
Last(s) == s[Len(s)]

PopulatedStep(step) ==
    /\ Truthy(step.id) /\ Truthy(step.action) /\ Truthy(step.description)
    /\ Truthy(step.expectedOutcome)
    /\ step.dependencies \in Seq(STRING)

PopulatedJourney(journey) ==
    /\ Truthy(journey.id) /\ Truthy(journey.name) /\ Truthy(journey.description)
    /\ Truthy(journey.userType)
    /\ journey.priority \in {"high", "medium", "low"}
    /\ \A k \in 1..Len(journey.steps) : PopulatedStep(journey.steps[k])

PopulatedEdgeCase(edgeCase) ==
    /\ Truthy(edgeCase.id) /\ Truthy(edgeCase.title) /\ Truthy(edgeCase.description)
    /\ Truthy(edgeCase.category)
    /\ edgeCase.severity \in {"critical", "moderate", "minor"}
    /\ Truthy(edgeCase.recommendation) /\ Truthy(edgeCase.impact)
    /\ edgeCase.affectedJourneys \in Seq(STRING)

Populated(r) ==
    /\ result[r].id \in ResultIds
    /\ result[r].documentName = document[r].name
    /\ Truthy(result[r].analyzedAt)
    /\ result[r].context = context[r]
    /\ \A i \in 1..Len(result[r].journeys) : PopulatedJourney(result[r].journeys[i])
    /\ \A i \in 1..Len(result[r].edgeCases) : PopulatedEdgeCase(result[r].edgeCases[i])
    /\ result[r].summary.totalJourneys \in Nat
    /\ result[r].summary.totalEdgeCases \in Nat
    /\ result[r].summary.criticalIssues \in Nat
    /\ result[r].summary.coverageScore \in Int

\* C1: the promise analyzeDocument returns never rejects, whatever error a
\* stage raises, and a run that has ended has resolved with a result all of
\* whose fields are populated.
C1_NeverRejects ==
    \A r \in Runs :
        /\ settled[r] # "rejected"
        /\ Done(r) => settled[r] = "fulfilled" /\ Populated(r)

\* C1 witness: a run that caught an error of none of the three classified
\* kinds and still resolved
C1_Witness ==
    \E r \in Runs :
        /\ FellBack(r)
        /\ caught[r].message = TypeError
        /\ settled[r] = "fulfilled"

IsFallback(res) ==
    /\ Len(res.journeys) = 1
    /\ Len(res.edgeCases) = 1
    /\ res.edgeCases[1].severity = "critical"
    /\ res.summary.criticalIssues = 1
    /\ res.summary.coverageScore = 0

\* C2: a run in which a stage raised an error, of whichever kind, has ended
\* with the fallback result: one journey, one critical edge case,
\* criticalIssues 1 and coverageScore 0.
C2_FallbackOnError ==
    \A r \in Runs :
        caught[r].stage # "none" => Done(r) /\ IsFallback(result[r])

\* C2 witness: the edge-case call failed with a quota error
C2_Witness ==
    \E r \in Runs :
        /\ Done(r)
        /\ caught[r] = [stage |-> "edgeCases", message |-> "quota_exceeded"]

\* C3 (as claimed): the last status of every ended run, fallback included, is
\* {stage: 'complete', progress: 100}.
C3_LastStatusComplete ==
    \A r \in Runs :
        Done(r) => /\ events[r] # <<>>
                   /\ Last(events[r]).stage = "complete"
                   /\ Last(events[r]).progress = 100

CountCritical(cases) ==
    Cardinality({i \in 1..Len(cases) : cases[i].severity = "critical"})

\* C4: in every returned result the summary counts agree with the arrays of
\* the result: totalJourneys with journeys, totalEdgeCases with edgeCases,
\* criticalIssues with the edge cases of severity 'critical'.
C4_SummaryCounts ==
    \A r \in Runs :
        Done(r) =>
            /\ result[r].summary.totalJourneys = Len(result[r].journeys)
            /\ result[r].summary.totalEdgeCases = Len(result[r].edgeCases)
            /\ result[r].summary.criticalIssues = CountCritical(result[r].edgeCases)

\* C4 witness: a genuine result with a critical edge case and one whose
\* severity the LLM gave outside the enumeration
C4_Witness ==
    \E r \in Runs :
        /\ Genuine(r)
        /\ edgeCases[r] = <<HighIssue, CriticalIssue>>
        /\ Len(result[r].journeys) = 2

\* C5: the coverageScore of every returned result is an integer of 0..100.
C5_ScoreRange ==
    \A r \in Runs :
        Done(r) => result[r].summary.coverageScore \in 0..100

\* C5 witness: a genuine result whose score is 0; no reply text of the model
\* reads 0, so the reply was negative and clamped
C5_Witness ==
    \E r \in Runs : Genuine(r) /\ result[r].summary.coverageScore = 0

StagesOf(cs) == [i \in 1..Len(cs) |-> cs[i].stage]
IsPrefix(s, t) == Len(s) <= Len(t) /\ s = SubSeq(t, 1, Len(s))

\* C6: the stage calls of a run are issued in the order journeys, edge cases,
\* insights, at most one is in flight, the edge-case call is issued after the
\* journeys call has returned and is given the journeys it returned, and the
\* scoring call is issued after the edge-case call has returned and is given
\* those journeys and the edge cases it returned.
C6_Sequential ==
    \A r \in Runs :
        /\ Cardinality(inflight[r]) <= 1
        /\ IsPrefix(StagesOf(calls[r]), <<"journeys", "edgeCases", "insights">>)
        /\ Len(calls[r]) >= 2 =>
              /\ "journeys" \notin inflight[r]
              /\ calls[r][2].journeys = journeys[r]
        /\ Len(calls[r]) >= 3 =>
              /\ "edgeCases" \notin inflight[r]
              /\ calls[r][3].journeys = journeys[r]
              /\ calls[r][3].issues = edgeCases[r]

\* C6 witness: the scoring call is in flight, issued with journeys and issues
C6_Witness ==
    \E r \in Runs :
        /\ inflight[r] = {"insights"}
        /\ Len(calls[r]) = 3
        /\ calls[r][3].journeys = <<GoodJourney>>
        /\ calls[r][3].issues = <<CriticalIssue>>

C8_Terminates ==
    \A r \in {"A"} : (settled[r] = "pending") ~> (settled[r] = "fulfilled")

\* C8 witness: a run that went through all three calls and returned
C8_Witness ==
    \E r \in Runs : Done(r) /\ Len(calls[r]) = 3 /\ settled[r] = "fulfilled"

\* C12 (as claimed): once the replies of the journeys stage and of the
\* edge-case stage have parsed as JSON arrays, the shape of their elements
\* (missing or mistyped fields, elements that are not objects, null included)
\* raises no error and is never the cause of a fallback: a run ends on the
\* fallback result for the error of a stage only, and a genuine result
\* carries every element coerced to defaults.
C12_ShapeNeverFallsBack ==
    \A r \in Runs :
        Done(r) =>
            /\ caught[r].message # TypeError
            /\ Genuine(r) =>
                  /\ result[r].journeys = validateJourneys(journeys[r])
                  /\ result[r].edgeCases = validateEdgeCases(edgeCases[r])

\* C15 (as claimed): no two journeys of a returned result have the same id,
\* whichever ids the LLM supplied, repeated or omitted.
C15_UniqueJourneyIds ==
    \A r \in Runs :
        Done(r) =>
            \A i, k \in 1..Len(result[r].journeys) :
                i # k => result[r].journeys[i].id # result[r].journeys[k].id

Coerced(value, raw, enumeration, default) ==
    /\ value \in enumeration
    /\ value = IF raw \in enumeration THEN raw ELSE default

\* C13 (as claimed): in every genuine result the priority of each journey is
\* the one the LLM gave when that is high, medium or low and 'medium'
\* otherwise, the severity of each edge case is the one the LLM gave when that
\* is critical, moderate or minor and 'moderate' otherwise, and the category
\* of each edge case is a member of the enumeration the EdgeCase type
\* declares, the one the LLM gave when that is a member.
C13_EnumsCoerced ==
    \A r \in Runs :
        Genuine(r) =>
            /\ \A i \in 1..Len(result[r].journeys) :
                   Coerced(result[r].journeys[i].priority,
                           Prop(journeys[r][i], "priority"),
                           {"high", "medium", "low"}, "medium")
            /\ \A i \in 1..Len(result[r].edgeCases) :
                   /\ Coerced(result[r].edgeCases[i].severity,
                              Prop(edgeCases[r][i], "severity"),
                              {"critical", "moderate", "minor"}, "moderate")
                   /\ result[r].edgeCases[i].category \in EdgeCaseCategory
                   /\ Prop(edgeCases[r][i], "category") \in EdgeCaseCategory
                         => result[r].edgeCases[i].category
                               = Prop(edgeCases[r][i], "category")

(***************************************************************************)
(* Two analyses at once: two invocations of handleAnalyzeConfirm, each     *)
(* with its own sink, over the one static updateProgress.                  *)
(***************************************************************************)
ConcReplies(texts) ==
    {Resolves(t) : t \in texts}
        \cup {Rejects(ErrorWith(<<"429", "Too", "Many", "Requests">>)),
              Rejects(ErrorWith(<<"API", "key", "not", "valid">>))}

ConcIds == {"k3x9q0ab1"}
ConcSyntaxErrors == {ErrorWith(<<"Unexpected", "token">>)}

ConcNext ==
    \E r \in Runs :
        \/ \E doc \in Documents : handleAnalyzeConfirm(r, doc, NoContext)
        \/ \E id \in ConcIds : Extracting(r, id)
        \/ \E reply \in ConcReplies({Wrap(<<GoodJourney>>), <<Prose>>}),
              e \in ConcSyntaxErrors, id \in ConcIds : JourneysSettled(r, reply, e, id)
        \/ \E id \in ConcIds : Analyzing(r, id)
        \/ \E reply \in ConcReplies({Wrap(<<CriticalIssue>>), Wrap(<<Null>>)}),
              e \in ConcSyntaxErrors, id \in ConcIds : EdgeCasesSettled(r, reply, e, id)
        \/ \E id \in ConcIds : Generating(r, id)
        \/ \E reply \in ConcReplies({<<"8", "5">>}), id \in ConcIds :
              InsightsSettled(r, reply, id)
        \/ \E id \in ConcIds : Complete(r, id)

ConcSpec == Init /\ [][ConcNext]_vars

\* C9 (as claimed): every status a sink has received was emitted by the run
\* that registered that sink.
C9_OwnSink ==
    \A s \in Runs : sink[s].from \in {"none", s}

SameFallback(r1, r2) ==
    /\ result[r1].journeys = result[r2].journeys
    /\ result[r1].edgeCases = result[r2].edgeCases
    /\ result[r1].summary = result[r2].summary

\* C11: two runs on the same document and context that fell back, whatever
\* the kinds of their errors (quota_exceeded, invalid_api_key,
\* api_unavailable, or an unclassified one), returned the same journeys, edge
\* cases and summary, and the status each catch emitted has the same stage
\* and the same progress; the statuses differ in the message at most.
C11_SameFallback ==
    \A r1, r2 \in Runs :
        (/\ FellBack(r1) /\ FellBack(r2)
         /\ document[r1] = document[r2]
         /\ context[r1] = context[r2])
        => /\ SameFallback(r1, r2)
           /\ Last(events[r1]).stage = Last(events[r2]).stage
           /\ Last(events[r1]).progress = Last(events[r2]).progress

\* C11 witness: on the same document, one run fell back on a quota error and
\* the other on an unclassified one (a TypeError), and the messages of their
\* last statuses differ
C11_Witness ==
    /\ FellBack("A") /\ FellBack("B")
    /\ document["A"] = document["B"]
    /\ context["A"] = context["B"]
    /\ caught["A"].message = "quota_exceeded"
    /\ caught["B"].message = TypeError
    /\ Last(events["A"]).message # Last(events["B"]).message

(***************************************************************************)
(* The pure functions on their own: handleApiError over every error        *)
(* message of at most MaxWords words, the validators over every array of   *)
(* at most MaxItems items, the stage functions over the reply texts.       *)
(***************************************************************************)
Words == {"429", "quota", "API", "key", "fetch"}

Messages == UNION {[1..k -> Words] : k \in 0..MaxWords}

ProviderErrorValues == {ErrorWithoutMessage} \cup {ErrorWith(m) : m \in Messages}

\* a validated journey or edge case as the JSON value it is, for a pass of
\* the validators over their own output
JsonOfStep(step) ==
    RawStep(step.id, step.action, step.description, step.expectedOutcome,
            Arr(step.dependencies))

JsonOfJourney(journey) ==
    RawJourney(journey.id, journey.name, journey.description, journey.userType,
               journey.priority,
               Arr([k \in 1..Len(journey.steps) |-> JsonOfStep(journey.steps[k])]))

JsonOfEdgeCase(edgeCase) ==
    RawEdgeCase(edgeCase.id, edgeCase.category, edgeCase.severity, edgeCase.title,
                edgeCase.description, Arr(edgeCase.affectedJourneys),
                edgeCase.recommendation, edgeCase.impact)

\* a journey without an id, whose second step has none either
BareStep == RawStep(Undef, Undef, "", Undef, Arr(<<"step_1">>))
StepsJourney ==
    RawJourney("", "Pay", Undef, "Buyer", "low", Arr(<<GoodStep, BareStep>>))

\* the functions applied on their own, and the arguments of each
PureArgs(f) ==
    CASE f = "handleApiError" -> ProviderErrorValues
      [] f = "validateJourneys" ->
            Arrays(JourneyItems \cup {NestedArray, StepsJourney}, MaxItems)
      [] f = "validateEdgeCases" -> Arrays(EdgeCaseItems \cup {NestedArray}, MaxItems)
      [] f = "generateInsights" -> ScoreTexts
      [] f = "analyzeForUserJourneys" -> ArrayTexts({GoodJourney, BareJourney})
      [] f = "analyzeForEdgeCases" -> ArrayTexts({CriticalIssue, HighIssue})

PureOps ==
    {"handleApiError", "validateJourneys", "validateEdgeCases", "generateInsights",
     "analyzeForUserJourneys", "analyzeForEdgeCases"}

\* ret is the thrown message of handleApiError, and for every other function
\* the sequence of the outcomes of its applications
PureInit ==
    /\ InitRuns
    /\ apiKey = TRUE
    /\ op \in PureOps
    /\ arg \in PureArgs(op)
    /\ ret = IF op = "handleApiError" THEN "" ELSE <<>>
    /\ variant = "rich"
    /\ validation = NoValidation
    /\ InitCredits

ApplyHandleApiError ==
    /\ op = "handleApiError"
    /\ ret = ""
    /\ ret' = handleApiError(arg)
    /\ UNCHANGED <<updateProgress, staticVars, pc, document, context, journeys,
                   edgeCases, coverageScore, calls, inflight, events, sink,
                   caught, settled, result, op, arg, validatorVars, creditVars>>

\* validateJourneys(arg), and then validateJourneys of what it returned
ApplyValidateJourneys ==
    /\ op = "validateJourneys"
    /\ Len(ret) < 2
    /\ ret # <<>> => ~ret[1].thrown
    /\ LET js == IF ret = <<>> THEN arg
                 ELSE [i \in 1..Len(ret[1].value) |-> JsonOfJourney(ret[1].value[i])]
       IN  ret' = Append(ret, IF validateJourneysThrows(js) THEN Thrown(TypeError)
                              ELSE Returned(validateJourneys(js)))
    /\ UNCHANGED <<updateProgress, staticVars, pc, document, context, journeys,
                   edgeCases, coverageScore, calls, inflight, events, sink,
                   caught, settled, result, op, arg, validatorVars, creditVars>>

\* validateEdgeCases(arg), and then validateEdgeCases of what it returned
ApplyValidateEdgeCases ==
    /\ op = "validateEdgeCases"
    /\ Len(ret) < 2
    /\ ret # <<>> => ~ret[1].thrown
    /\ LET es == IF ret = <<>> THEN arg
                 ELSE [i \in 1..Len(ret[1].value) |-> JsonOfEdgeCase(ret[1].value[i])]
       IN  ret' = Append(ret, IF validateEdgeCasesThrows(es) THEN Thrown(TypeError)
                              ELSE Returned(validateEdgeCases(es)))
    /\ UNCHANGED <<updateProgress, staticVars, pc, document, context, journeys,
                   edgeCases, coverageScore, calls, inflight, events, sink,
                   caught, settled, result, op, arg, validatorVars, creditVars>>

\* generateInsights on a reply whose text is arg
ApplyGenerateInsights ==
    /\ op = "generateInsights"
    /\ ret = <<>>
    /\ ret' = <<generateInsights(Resolves(arg))>>
    /\ UNCHANGED <<updateProgress, staticVars, pc, document, context, journeys,
                   edgeCases, coverageScore, calls, inflight, events, sink,
                   caught, settled, result, op, arg, validatorVars, creditVars>>

\* analyzeForUserJourneys on a reply whose text is arg
ApplyAnalyzeForUserJourneys ==
    /\ op = "analyzeForUserJourneys"
    /\ ret = <<>>
    /\ \E e \in SyntaxErrors : ret' = <<analyzeForUserJourneys(Resolves(arg), e)>>
    /\ UNCHANGED <<updateProgress, staticVars, pc, document, context, journeys,
                   edgeCases, coverageScore, calls, inflight, events, sink,
                   caught, settled, result, op, arg, validatorVars, creditVars>>

\* analyzeForEdgeCases on a reply whose text is arg
ApplyAnalyzeForEdgeCases ==
    /\ op = "analyzeForEdgeCases"
    /\ ret = <<>>
    /\ \E e \in SyntaxErrors : ret' = <<analyzeForEdgeCases(Resolves(arg), e)>>
    /\ UNCHANGED <<updateProgress, staticVars, pc, document, context, journeys,
                   edgeCases, coverageScore, calls, inflight, events, sink,
                   caught, settled, result, op, arg, validatorVars, creditVars>>

PureNext ==
    \/ ApplyHandleApiError
    \/ ApplyValidateJourneys
    \/ ApplyValidateEdgeCases
    \/ ApplyGenerateInsights
    \/ ApplyAnalyzeForUserJourneys
    \/ ApplyAnalyzeForEdgeCases

PureSpec == PureInit /\ [][PureNext]_vars

Handled == op = "handleApiError" /\ ret # ""
Has(words) == arg.hasMessage /\ Includes(arg.message, words)

\* C10 (as claimed): a message containing "429" or "quota" is rethrown as
\* quota_exceeded, one containing "API key" as invalid_api_key, any other
\* error as api_unavailable.  The cases are read in the order the claim
\* gives them, so a message that is in both of the first two counts for the
\* first.
C10_AsClaimed ==
    Handled =>
        /\ (Has(<<"429">>) \/ Has(<<"quota">>)) => ret = "quota_exceeded"
        /\ (~(Has(<<"429">>) \/ Has(<<"quota">>)) /\ Has(<<"API", "key">>))
              => ret = "invalid_api_key"
        /\ ~(Has(<<"429">>) \/ Has(<<"quota">>) \/ Has(<<"API", "key">>))
              => ret = "api_unavailable"

\* C10 (amended): the tests are tried in the order "429", "API key", "quota":
\* a message containing "429" is rethrown as quota_exceeded; otherwise one
\* containing "API key" as invalid_api_key; otherwise one containing "quota"
\* as quota_exceeded; every other error, one with no message included, as
\* api_unavailable.
C10_Precedence ==
    Handled =>
        /\ Has(<<"429">>) => ret = "quota_exceeded"
        /\ (~Has(<<"429">>) /\ Has(<<"API", "key">>)) => ret = "invalid_api_key"
        /\ (~Has(<<"429">>) /\ ~Has(<<"API", "key">>) /\ Has(<<"quota">>))
              => ret = "quota_exceeded"
        /\ ~(Has(<<"429">>) \/ Has(<<"quota">>) \/ Has(<<"API", "key">>))
              => ret = "api_unavailable"

\* C10 witness: a message with both "API key" and "quota", rethrown as
\* invalid_api_key
C10_Witness ==
    /\ Handled
    /\ arg = ErrorWith(<<"API", "key", "quota">>)
    /\ ret = "invalid_api_key"

Applied(f) == op = f /\ ret # <<>>

\* C14: coercion is idempotent: whenever validateJourneys (validateEdgeCases)
\* returns, a second pass over what it returned returns the same value.
C14_Idempotent ==
    (op \in {"validateJourneys", "validateEdgeCases"} /\ Len(ret) = 2)
        => ret[2] = ret[1]

\* C14 witness: two passes of validateJourneys over an array in which the
\* first pass had an id, a name and a priority to synthesize
C14_Witness ==
    /\ op = "validateJourneys"
    /\ Len(ret) = 2
    /\ arg = <<GoodJourney, BareJourney>>
    /\ ret[2].value[2].id = "journey-1"
    /\ ret[2].value[2].priority = "medium"

\* the first integer token of a text: the first run of digits, negative when
\* a minus sign stands right before it
DigitPositions(text) == {i \in 1..Len(text) : IsDigit(text[i])}

FirstIntegerToken(text) ==
    LET first == Min(DigitPositions(text))
        value == DecimalValue(DigitPrefix(SubSeq(text, first, Len(text))))
    IN  IF first > 1 /\ text[first - 1] = "-" THEN 0 - value ELSE value

\* C16 (as claimed): the scorer returns the first integer token of the reply
\* text clamped to 0..100, and 70 when the text holds no integer; it does not
\* fail.
C16_FirstIntegerToken ==
    Applied("generateInsights") =>
        /\ ~ret[1].thrown
        /\ ret[1].value =
              IF DigitPositions(arg) = {} THEN DefaultScore
              ELSE MathMax(0, MathMin(100, FirstIntegerToken(arg)))

\* the spans of a text that are one balanced, well-formed JSON array
BalancedSpans(text) ==
    {span \in (1..Len(text)) \X (1..Len(text)) :
        span[1] < span[2] /\ JsonParses(SubSeq(text, span[1], span[2]))}

FirstBalancedSpan(text) ==
    LET span == CHOOSE x \in BalancedSpans(text) :
                    \A y \in BalancedSpans(text) : x[1] <= y[1]
    IN  SubSeq(text, span[1], span[2])

\* C17 (as claimed): on a reply that holds a balanced [...] span of valid
\* JSON, with prose or further brackets before or after it,
\* analyzeForUserJourneys and analyzeForEdgeCases return the parse of the
\* first such span; they fail only when the reply holds none.
C17_FirstBalancedSpan ==
    (Applied("analyzeForUserJourneys") \/ Applied("analyzeForEdgeCases")) =>
        IF BalancedSpans(arg) = {} THEN ret[1].thrown
        ELSE ret[1] = Returned(JsonParse(FirstBalancedSpan(arg)))

(***************************************************************************)
(* The validation of an uploaded document.                                 *)
(***************************************************************************)
RECURSIVE Repeat(_, _)
Repeat(s, n) == IF n = 0 THEN "" ELSE s \o Repeat(s, n - 1)

\* The documents: those that list the first k PRD keywords and then 120 words
\* that are in no keyword table; the empty one; 40 and 70 words of prose; 560
\* words that repeat four phrases; one with anti-pattern keywords; one with
\* every keyword of the simplified validator
Contents ==
    LET filler == Repeat("lorem ipsum dolor sit ", 30)
    IN  {Join(Slice(prdKeywords, k), ". ") \o ". " \o filler : k \in 0..MaxTerms}
            \cup {"",
                  "lorem ipsum dolor sit" \o Repeat(" amet elit sed", 12),
                  "lorem ipsum dolor sit" \o Repeat(" amet elit sed", 22),
                  Repeat("Functional requirements, user stories, acceptance criteria, KPIs. ", 80),
                  "A recipe:\n\tthe oven, the ingredients. One user story.",
                  Join(simplePrdKeywords, " ") \o " " \o filler}

ValidationTexts ==
    {<<>>, <<Prose>>, <<LBrace, RBrace>>, <<LBrace, Prose, RBrace>>,
     <<LBrace, Members(EmptyObject), RBrace, Prose, RBrace>>,
     <<Prose,
       LBrace,
       Members([isPRD |-> "true", confidence |-> [given |-> TRUE, value |-> 150],
                reasons |-> Arr(<<"Has user stories">>)]),
       RBrace,
       Prose>>,
     <<LBrace,
       Members([isPRD |-> "false", confidence |-> [given |-> TRUE, value |-> -5],
                reasons |-> NotArr]),
       RBrace>>}

ValidatorInit ==
    /\ InitRuns
    /\ apiKey \in BOOLEAN
    /\ op = "none" /\ arg = <<>> /\ ret = ""
    /\ variant \in {"rich", "simple"}
    /\ validation = NoValidation
    /\ InitCredits

ValidatorNext ==
    \/ \E content \in Contents : validatePRD(content)
    \/ \E reply \in Replies(ValidationTexts), e \in SyntaxErrors :
          ValidationSettled(reply, e)

ValidatorSpec == ValidatorInit /\ [][ValidatorNext]_vars

Validated == validation.pc = "done"

\* the result is the keyword validator's: always in the simplified build,
\* and in the other when the LLM validation failed
ByKeywords == Validated /\ (variant = "simple" \/ validation.error # "")

\* C18: validatePRD never throws: whatever the text and however the LLM
\* validation fails (a provider error, no API key, a reply without a JSON
\* object, JSON that does not parse), the promise is fulfilled with an object
\* {isPRD, confidence, reasons}, the one the keyword validator computes.
C18_NeverThrows ==
    /\ validation.settled # "rejected"
    /\ Validated =>
          /\ validation.settled = "fulfilled"
          /\ validation.result.isPRD \in BOOLEAN
          /\ validation.result.confidence \in Int
          /\ validation.result.reasons \in Seq(STRING)
    /\ (Validated /\ validation.error # "") =>
          validation.result = fallbackValidation(validation.content)

\* C18 witness: the LLM validation failed as api_unavailable (no JSON object,
\* or JSON that does not parse) on a document the keyword validator accepts
C18_Witness ==
    /\ Validated
    /\ validation.error = "api_unavailable"
    /\ validation.settled = "fulfilled"
    /\ validation.result.isPRD

\* C19 (as claimed): a result of the keyword validator has an integer
\* confidence in 0..100, and isPRD is true exactly when that confidence is
\* greater than the threshold: 30 in the richer validator, 20 in the
\* simplified one.
C19_ThresholdAgrees ==
    ByKeywords =>
        /\ validation.result.confidence \in 0..100
        /\ validation.result.isPRD
              <=> validation.result.confidence > (IF variant = "simple" THEN 20 ELSE 30)

\* a document of more than 500 words that has the four phrases and no
\* anti-pattern keyword
IsScenarioB(content) ==
    LET cleanContent == ReplaceNonWord(toLowerCase(content))
    IN  /\ SplitLength(cleanContent) > 500
        /\ \A phrase \in {"functional requirements", "user stories",
                          "acceptance criteria", "kpis"} :
               Includes(cleanContent, phrase)
        /\ Matches(antiPatterns, cleanContent) = <<>>

\* C20 (as claimed): the keyword validator classifies a document of more than
\* 500 words that repeats "functional requirements", "user stories",
\* "acceptance criteria" and "KPIs" and has no anti-pattern keyword as a PRD,
\* with a confidence above 70.
C20_ScenarioB ==
    (ByKeywords /\ IsScenarioB(validation.content)) =>
        /\ validation.result.isPRD
        /\ validation.result.confidence > 70

\* a document shorter than the validator's length threshold whose cleaned
\* text holds no keyword of the validator's tables
IsShortProse(content) ==
    LET cleanContent == ReplaceNonWord(toLowerCase(content))
        keywords == IF variant = "simple" THEN simplePrdKeywords
                    ELSE prdKeywords \o structureKeywords \o antiPatterns
    IN  /\ SplitLength(cleanContent) < (IF variant = "simple" THEN 50 ELSE 100)
        /\ Matches(keywords, cleanContent) = <<>>

Evaluates == ByKeywords' /\ validation' # validation

CreditInit ==
    /\ InitRuns
    /\ apiKey = FALSE
    /\ op = "none" /\ arg = <<>> /\ ret = ""
    /\ variant = "rich"
    /\ validation = NoValidation
    /\ deduction \in {"plain", "locked", "client"}
    /\ user_credits = NoRow
    /\ credit_usage_log = <<>>
    /\ lock = "none"
    /\ credits = [r \in Runs |-> Loaded(NoRow)]
    /\ request = [r \in Runs |-> NoRequest]

\* the session has called no deduction
Fresh(r) == request[r].op # "deduct" /\ request[r].returned = "none"

\* a session either runs one analysis or deducts once on its own
CreditNext ==
    \/ initialize_user_credits
    \/ \E r \in Runs :
          \/ loadCredits(r)
          \/ getUserCredits(r)
          \/ initializeUserCredits(r)
          \/ /\ Fresh(r)
             /\ handleAnalyzeConfirm(r, [name |-> "checkout.pdf",
                                         content |-> "Checkout PRD"], NoContext)
          \/ \E id \in ConcIds : Extracting(r, id)
          \/ AnalysisReturned(r)
          \/ \E amount \in 1..MaxAmount :
                /\ pc[r] = "idle" /\ Fresh(r)
                /\ deductCredits(r, Undef, amount, FALSE)
          \/ deduct_user_credits(r)

CreditSpec == CreditInit /\ [][CreditNext]_vars

\* no CreditService call is in flight
Quiescent == \A r \in Runs : request[r].op = "none"

\* what the user has spent in a session: 1 for an analysis whose result was
\* shown, and the amount of a deduction that returned true
Spent(r) ==
    IF pc[r] = "deducting" THEN 1
    ELSE IF request[r].returned = "true" THEN request[r].amount ELSE 0

\* C23 (as claimed): every analysis run that returns a result to the user
\* decreases the balance by exactly 1, and an analysis is started only when
\* the balance is at least 1.
C23_OneCreditPerAnalysis ==
    /\ [](Quiescent =>
            IF user_credits.exists
            THEN user_credits.credits = FreeCredits - (Spent("A") + Spent("B"))
            ELSE Spent("A") + Spent("B") = 0)
    /\ [][\A r \in Runs :
             (pc[r] = "idle" /\ pc'[r] = "delay500")
                 => user_credits.exists /\ user_credits.credits >= 1]_vars

\* the sum of the amounts of the deductions that returned true
Deducted ==
    (IF request["A"].returned = "true" THEN request["A"].amount ELSE 0)
        + (IF request["B"].returned = "true" THEN request["B"].amount ELSE 0)

\* C24 (as claimed): for any interleaving of two deductions the balance is
\* never negative, and once both have returned it is the initial balance
\* minus the amounts of the deductions that returned true.
C24_SafeDeduction ==
    /\ user_credits.credits >= 0
    /\ (\A r \in Runs : request[r].op # "deduct") =>
           IF user_credits.exists
           THEN user_credits.credits = FreeCredits - Deducted
           ELSE Deducted = 0

\* no deduction was called yet
NoDeduction == \A r \in Runs : Fresh(r)

\* C25: a new user gets exactly 3 free credits: however the getUserCredits
\* calls of the sessions and the sign-up trigger interleave, the one record
\* of the user has credits = 3 and total_purchased = 0, no call fails on the
\* duplicate insert, and a call that has returned returned that record.
C25_ThreeFreeCredits ==
    NoDeduction =>
        /\ user_credits.exists => user_credits = UserCredits(FreeCredits, 0)
        /\ \A r \in Runs :
              /\ ~credits[r].error
              /\ credits[r].row.exists => credits[r].row = user_credits
              /\ request[r].pc = "fetch" => user_credits.exists

\* C25 witness: both sessions found no record; the insert of A created it,
\* the insert of B failed on the duplicate key, and B has fetched the record
C25_Witness ==
    /\ NoDeduction
    /\ request["B"].pc = "fetch"
    /\ credits["A"].row = UserCredits(FreeCredits, 0)
    /\ user_credits = UserCredits(FreeCredits, 0)

(***************************************************************************)
(* The ledger: add_user_credits and deduct_user_credits of one migration,  *)
(* called one at a time.                                                   *)
(***************************************************************************)
LedgerInit ==
    /\ InitRuns
    /\ apiKey = FALSE
    /\ op = "none" /\ arg = <<>> /\ ret = ""
    /\ variant = "rich"
    /\ validation = NoValidation
    /\ deduction = "plain"
    /\ user_credits = NoRow
    /\ credit_usage_log = <<>>
    /\ lock = "none"
    /\ credits = [r \in Runs |-> Loaded(NoRow)]
    /\ request = [r \in Runs |-> NoRequest]

LedgerNext ==
    \/ \E amount \in 1..MaxAmount : deductCredits("A", Undef, amount, FALSE)
    \/ deduct_user_credits("A")
    \/ \E amount \in 1..MaxAmount :
          /\ request["A"].op = "none"
          /\ user_credits.total_purchased + amount <= MaxPurchased
          /\ add_user_credits(amount)

LedgerSpec == LedgerInit /\ [][LedgerNext]_vars

\* C30: over every sequence of add_user_credits and deduct_user_credits
\* calls with positive amounts, made one at a time, the balance is never
\* negative; a deduction of more than the balance, or for a user without a
\* record, returns false and changes neither the balance nor the log; and a
\* deduction that returns true appends one log row, whose remaining_credits
\* is the new balance.
C30_Ledger ==
    /\ [](user_credits.credits >= 0)
    /\ [][(request["A"].op = "deduct" /\ request'["A"].op = "none") =>
             /\ request'["A"].returned \in {"true", "false"}
             /\ (~user_credits.exists
                    \/ user_credits.credits < request["A"].amount)
                   => request'["A"].returned = "false"
             /\ request'["A"].returned = "false"
                   => UNCHANGED <<user_credits, credit_usage_log>>
             /\ request'["A"].returned = "true" =>
                   /\ user_credits'.credits
                         = user_credits.credits - request["A"].amount
                   /\ Len(credit_usage_log') = Len(credit_usage_log) + 1
                   /\ SubSeq(credit_usage_log', 1, Len(credit_usage_log))
                         = credit_usage_log
                   /\ Last(credit_usage_log').remaining_credits
                         = user_credits'.credits
                   /\ Last(credit_usage_log').credits_used
                         = request["A"].amount]_vars

\* C30 witness: after a purchase of 3 credits, a deduction of 2 returned
\* true and one of 2 more returned false
C30_Witness ==
    /\ user_credits = UserCredits(1, 3)
    /\ Len(credit_usage_log) = 1
    /\ credit_usage_log[1].remaining_credits = 1
    /\ request["A"].op = "none"
    /\ request["A"].amount = 2
    /\ request["A"].returned = "false"

(***************************************************************************)
(* The stage calls and the progress events of a run.                       *)
(***************************************************************************)

\* the stage calls a run can have issued when it caught the error of `stage`
CallsBefore(stage) ==
    CASE stage = "journeys" -> 1
      [] stage = "edgeCases" -> 2
      [] OTHER -> 3

\* C26: in a run of analyzeDocument each of the three LLM stage calls is
\* issued at most once; a run that has caught the error of a stage has issued
\* no call of a later stage and has none in flight, and issues no call from
\* then on, neither that of the failed stage again nor a later one.
C26_NoRetry ==
    /\ [](\A r \in Runs :
            /\ \A i, k \in 1..Len(calls[r]) :
                   i # k => calls[r][i].stage # calls[r][k].stage
            /\ caught[r].stage # "none" =>
                   /\ Len(calls[r]) <= CallsBefore(caught[r].stage)
                   /\ inflight[r] = {})
    /\ [][\A r \in Runs :
             caught[r].stage # "none" => calls'[r] = calls[r]]_vars

\* C26 witness: the journeys call, the one call of the run, failed on the
\* quota and the run has ended
C26_Witness ==
    \E r \in Runs :
        /\ FellBack(r)
        /\ caught[r] = [stage |-> "journeys", message |-> "quota_exceeded"]
        /\ StagesOf(calls[r]) = <<"journeys">>

\* the stages of ProcessingStatus, in the order of the analysis
StageOrder == <<"parsing", "extracting", "analyzing", "generating", "complete">>
StageRank(stage) == CHOOSE i \in 1..Len(StageOrder) : StageOrder[i] = stage

\* the progress values of a stage
StageRange(stage) ==
    CASE stage = "parsing" -> 0..10
      [] stage = "extracting" -> 10..60
      [] stage = "analyzing" -> 60..90
      [] stage = "generating" -> 90..99
      [] stage = "complete" -> 100..100

\* C27: the statuses a run of analyzeDocument has passed to the sink, whether
\* it succeeds or falls back, go forward only: no status has a stage before
\* that of an earlier status in the order parsing, extracting, analyzing,
\* generating, complete, the progress values never decrease, and the progress
\* of each status lies in the range of its stage.
C27_ForwardOnly ==
    \A r \in Runs :
        /\ \A i \in 1..Len(events[r]) :
               /\ events[r][i].stage \in {StageOrder[j] : j \in 1..Len(StageOrder)}
               /\ events[r][i].progress \in StageRange(events[r][i].stage)
        /\ \A i, k \in 1..Len(events[r]) :
               i < k => /\ StageRank(events[r][i].stage) <= StageRank(events[r][k].stage)
                        /\ events[r][i].progress <= events[r][k].progress

\* C27 witness: the scoring stage failed, and the run has emitted the status
\* of the catch after that of the generating stage
C27_Witness ==
    \E r \in Runs :
        /\ FellBack(r)
        /\ caught[r].stage = "insights"
        /\ [i \in 1..Len(events[r]) |-> events[r][i].progress] = <<10, 30, 60, 90, 95>>

\* the field of the coerced item is the one of the raw item when that is set
Kept(out, raw, f) == Truthy(Prop(raw, f)) => out[f] = Prop(raw, f)

\* the array-valued field of the coerced item holds the items of the raw
\* array, and nothing when the raw value is no array
KeptArray(out, raw, f) ==
    out[f] = IF ArrProp(raw, f).isArray THEN ArrProp(raw, f).items ELSE <<>>

\* the id of the coerced item is the raw one, or the default when none is set
IdOr(out, raw, default) ==
    out.id = IF Truthy(Prop(raw, "id")) THEN Prop(raw, "id") ELSE default

CoercedStep(out, raw, index, stepIndex) ==
    /\ IdOr(out, raw, "step-" \o ToString(index) \o "-" \o ToString(stepIndex))
    /\ \A f \in {"action", "description", "expectedOutcome"} : Kept(out, raw, f)
    /\ KeptArray(out, raw, "dependencies")

CoercedJourney(out, raw, index) ==
    /\ IdOr(out, raw, "journey-" \o ToString(index))
    /\ \A f \in {"name", "description", "userType"} : Kept(out, raw, f)
    /\ Prop(raw, "priority") \in {"high", "medium", "low"}
          => out.priority = Prop(raw, "priority")
    /\ IF ArrProp(raw, "steps").isArray
       THEN /\ Len(out.steps) = Len(ArrProp(raw, "steps").items)
            /\ \A k \in 1..Len(out.steps) :
                   CoercedStep(out.steps[k], ArrProp(raw, "steps").items[k],
                               index, k - 1)
       ELSE out.steps = <<>>

CoercedEdgeCase(out, raw, index) ==
    /\ IdOr(out, raw, "edge-" \o ToString(index))
    /\ \A f \in {"title", "description", "recommendation", "impact"} :
           Kept(out, raw, f)
    /\ Prop(raw, "severity") \in {"critical", "moderate", "minor"}
          => out.severity = Prop(raw, "severity")
    /\ KeptArray(out, raw, "affectedJourneys")

\* C28: whenever the coercion pass returns, it has kept the number and the
\* order of the journeys, of the steps of each journey and of the edge cases:
\* the item at each position is the raw item of that position, with every
\* field that is set and valid as it was, an id that is not set replaced by
\* 'journey-<index>', 'step-<journeyIndex>-<stepIndex>' or 'edge-<index>'
\* (indices from 0), and steps, dependencies or affectedJourneys that are no
\* array replaced by the empty sequence.
C28_PositionalDefaults ==
    /\ (Applied("validateJourneys") /\ ~ret[1].thrown) =>
           /\ Len(ret[1].value) = Len(arg)
           /\ \A i \in 1..Len(arg) : CoercedJourney(ret[1].value[i], arg[i], i - 1)
    /\ (Applied("validateEdgeCases") /\ ~ret[1].thrown) =>
           /\ Len(ret[1].value) = Len(arg)
           /\ \A i \in 1..Len(arg) : CoercedEdgeCase(ret[1].value[i], arg[i], i - 1)

\* C28 witness: the second of two journeys has no id, and its second step
\* has neither an id nor an action, and has dependencies
C28_Witness ==
    /\ Applied("validateJourneys")
    /\ arg = <<GoodJourney, StepsJourney>>
    /\ ret[1].value[2].id = "journey-1"
    /\ ret[1].value[2].steps[2].id = "step-1-1"
    /\ ret[1].value[2].steps[2].dependencies = <<"step_1">>
    /\ ret[1].value[1].steps[1].dependencies = <<>>

\* C29: analyzeDocument passes its inputs through: the result of a run, the
\* genuine one and the fallback alike, has the name of the document and the
\* context the run was called with, every stage call of the run was given
\* that context, and no step of a run changes the document or the context.
C29_InputsPassedThrough ==
    /\ [](\A r \in Runs :
            /\ \A i \in 1..Len(calls[r]) : calls[r][i].context = context[r]
            /\ Done(r) => /\ result[r].documentName = document[r].name
                          /\ result[r].context = context[r])
    /\ [][\A r \in Runs :
             pc[r] # "idle" => UNCHANGED <<document[r], context[r]>>]_vars

\* C29 witness: a run that was given a company and a problem statement has
\* issued its three stage calls and has ended on the fallback result
C29_Witness ==
    \E r \in Runs :
        /\ FellBack(r)
        /\ context[r] = [company |-> "Acme", problemStatement |-> "Cart abandonment"]
        /\ Len(calls[r]) = 3
        /\ result[r].context.company = "Acme"

====
